---- MODULE Spec2Model ----
(***************************************************************************)
(* Security event monitoring engine (services/security-monitor.ts):        *)
(* SecurityMonitor's static state, the persisted event list and metrics    *)
(* snapshot, and its asynchronous operations, one step per await.          *)
(*                                                                         *)
(* Time is counted in ticks of TickMs milliseconds; the source's           *)
(* millisecond literals are converted with Ticks(ms).                      *)
(***************************************************************************)
EXTENDS Integers, Sequences, FiniteSets, TLC

\* ------------------------------------------------------------- bounds
\* resolution of the model clock, in milliseconds per tick
TickMs == 250
\* deepest nesting of logEvent calls the model follows
MaxDepth == 3
\* external logEvent calls per behaviour
MaxCalls == 6
\* last clock value (ticks after StartTime) the model clock may reach
Horizon == 4
\* changes of the enabled setting per behaviour
MaxToggles == 1
\* periodic retention passes per behaviour
MaxPasses == 2
\* initialize() calls per behaviour
MaxInits == 2
\* external logEvent calls in a behaviour with other operations in flight
MaxRaces == 2
\* calls of the query operations per behaviour
MaxQueries == 2
\* times the storage starts to reject per behaviour
MaxFaults == 1
\* runs of the 5-minute metrics timer per behaviour
MaxRuns == 2
\* external logEvent calls per behaviour where the rate limiter is exercised
MaxAttempts == 7

\* -------------------------------------------------- program constants
MAX_STORED_EVENTS == 1000
ANOMALY_THRESHOLD == 3
HIGH_FREQUENCY_THRESHOLD == 10
RATE_LIMIT_WINDOW == 1000
RATE_LIMIT_MAX_EVENTS == 5

Ticks(ms) == ms \div TickMs
MINUTE == Ticks(60 * 1000)
HOUR == Ticks(60 * 60 * 1000)
DAY == Ticks(24 * 60 * 60 * 1000)
RETENTION == 30 * DAY
\* Date.now() when the model starts: late enough for 30-day-old events
StartTime == 40 * DAY

\* ------------------------------------------------------ JS values
Undefined == [t |-> "undefined"]
Bool(b) == [t |-> "boolean", v |-> b]
Num(n) == [t |-> "number", v |-> n]
Str(s) == [t |-> "string", v |-> s]
Regex(r) == [t |-> "regex", v |-> r]
Obj(o) == [t |-> "object", v |-> o]

EventTypes ==
  {"authentication", "permission", "network", "data_access", "tool_usage", "system"}
Severities == {"low", "medium", "high", "critical"}

\* the strings the IPv4 regular expression of suspicious_network_activity accepts
IPv4Strings == {"10.0.0.1"}
RegexTest(r, s) == r = "ipv4" /\ s \in IPv4Strings

\* ------------------------------------------------------ threat patterns
\* weights and thresholds in tenths
threatPatterns == <<
  [id |-> "rapid_tool_usage", name |-> "Rapid Tool Usage",
   indicators |-> <<
     [type |-> "tool_usage", field |-> <<"count_per_minute">>,
      operator |-> "greater_than", value |-> Num(20), weight |-> 10] >>,
   threshold |-> 10, action |-> "alert"],
  [id |-> "failed_authentication", name |-> "Failed Authentication Attempts",
   indicators |-> <<
     [type |-> "authentication", field |-> <<"success">>,
      operator |-> "equals", value |-> Bool(FALSE), weight |-> 3],
     [type |-> "authentication", field |-> <<"source">>,
      operator |-> "equals", value |-> Str("external_auth"), weight |-> 8],
     [type |-> "authentication", field |-> <<"count_per_hour">>,
      operator |-> "greater_than", value |-> Num(10), weight |-> 10] >>,
   threshold |-> 15, action |-> "alert"],
  [id |-> "suspicious_network_activity", name |-> "Suspicious Network Activity",
   indicators |-> <<
     [type |-> "network", field |-> <<"domain">>,
      operator |-> "regex", value |-> Regex("ipv4"), weight |-> 8],
     [type |-> "network", field |-> <<"protocol">>,
      operator |-> "equals", value |-> Str("http"), weight |-> 3] >>,
   threshold |-> 8, action |-> "alert"],
  [id |-> "permission_escalation", name |-> "Permission Escalation Attempt",
   indicators |-> <<
     [type |-> "permission", field |-> <<"escalation">>,
      operator |-> "equals", value |-> Bool(TRUE), weight |-> 10],
     [type |-> "permission", field |-> <<"consent_bypassed">>,
      operator |-> "equals", value |-> Bool(TRUE), weight |-> 20] >>,
   threshold |-> 10, action |-> "block"],
  [id |-> "data_exfiltration", name |-> "Potential Data Exfiltration",
   indicators |-> <<
     [type |-> "data_access", field |-> <<"size_mb">>,
      operator |-> "greater_than", value |-> Num(10), weight |-> 7],
     [type |-> "network", field |-> <<"upload_size_mb">>,
      operator |-> "greater_than", value |-> Num(5), weight |-> 10] >>,
   threshold |-> 10, action |-> "alert"] >>

\* ------------------------------------------------------ sequence helpers
Count(s, P(_)) == Cardinality({i \in 1..Len(s) : P(s[i])})

RECURSIVE SumRange(_, _, _)
\* sum of f[i] for i in lo..hi, by halving
SumRange(f, lo, hi) ==
  IF lo > hi THEN 0
  ELSE IF lo = hi THEN f[lo]
  ELSE LET mid == (lo + hi) \div 2
       IN SumRange(f, lo, mid) + SumRange(f, mid + 1, hi)

\* ------------------------------------------------------ rate limiter
\* mutant of InWindow: a timestamp exactly one window old is kept
InWindowInclusive(timestamp, t) == t - timestamp <= Ticks(RATE_LIMIT_WINDOW)

\* the filter predicate of shouldRateLimit: the timestamp is inside the window
InWindow(timestamp, t) == t - timestamp < Ticks(RATE_LIMIT_WINDOW)

\* rateLimitTimestamps after the filter of shouldRateLimit at time t
FilterWindow(list, t) == SelectSeq(list, LAMBDA ts : InWindow(ts, t))

\* mutant of OverLimit: the cap is tested with > instead of >=
OverLimitOffByOne(list) == Len(list) > RATE_LIMIT_MAX_EVENTS

\* "over the limit" test of shouldRateLimit
OverLimit(list) == Len(list) >= RATE_LIMIT_MAX_EVENTS

\* mutant of shouldRateLimit: a rejected call leaves its timestamp as well
shouldRateLimitRecordsRejected(list, t) ==
  LET kept == FilterWindow(list, t)
  IN IF OverLimit(kept) THEN <<TRUE, Append(kept, t)>> ELSE <<FALSE, Append(kept, t)>>

\* shouldRateLimit(): <<result, new rateLimitTimestamps>>
shouldRateLimit(list, t) ==
  LET kept == FilterWindow(list, t)
  IN IF OverLimit(kept) THEN <<TRUE, kept>> ELSE <<FALSE, Append(kept, t)>>

\* ------------------------------------------------------ event store
\* mutant of LimitStored: the newest events are cut off instead of the oldest
LimitStoredKeepsOldest(events) ==
  IF Len(events) > MAX_STORED_EVENTS THEN SubSeq(events, 1, MAX_STORED_EVENTS) ELSE events

\* events.splice(0, events.length - MAX_STORED_EVENTS) when over capacity
LimitStored(events) ==
  IF Len(events) > MAX_STORED_EVENTS
  THEN SubSeq(events, Len(events) - MAX_STORED_EVENTS + 1, Len(events))
  ELSE events

\* navigator is defined where the engine runs (extension pages and worker)
NavigatorDefined == TRUE

\* fullEvent of logEvent: {...event, id, timestamp} and userAgent; the spread
\* copies every property of the submitted event
FullEvent(event, id, t) ==
  LET base == [k \in DOMAIN event \cup {"id", "timestamp"} |->
                 IF k = "id" THEN id ELSE IF k = "timestamp" THEN t ELSE event[k]]
  IN IF NavigatorDefined
     THEN [k \in DOMAIN base \cup {"userAgent"} |->
             IF k = "userAgent" THEN "navigator.userAgent" ELSE base[k]]
     ELSE base

\* ------------------------------------------------------ metrics
NoMetrics == [absent |-> TRUE]

defaultMetrics ==
  [totalEvents |-> 0, eventsByType |-> <<>>, eventsBySeverity |-> <<>>,
   lastEventTime |-> 0, suspiciousActivityScore |-> 0, threatLevel |-> "low"]

severityScores(s) ==
  CASE s = "low" -> 1 [] s = "medium" -> 5 [] s = "high" -> 15
    [] s = "critical" -> 25 [] OTHER -> 0

\* typeMultipliers, in tenths
typeMultipliers(ty) ==
  CASE ty = "authentication" -> 15 [] ty = "permission" -> 20
    [] ty = "network" -> 12 [] ty = "data_access" -> 18
    [] ty = "tool_usage" -> 10 [] ty = "system" -> 13 [] OTHER -> 10

\* eventScore = EventScoreNumerator / ScoreDenominator:
\* severity * max(0.1, 1 - age/DAY) * multiplier
ScoreDenominator == 100 * DAY

\* mutant of EventScoreNumerator: the decay has no floor of 0.1
EventScoreNumeratorToZero(event, t) ==
  LET age == t - event.timestamp
      decay == IF DAY - age > 0 THEN 10 * (DAY - age) ELSE 0
  IN severityScores(event.severity) * typeMultipliers(event.type) * decay

EventScoreNumerator(event, t) ==
  LET age == t - event.timestamp
      decay == IF 10 * (DAY - age) > DAY THEN 10 * (DAY - age) ELSE DAY
  IN severityScores(event.severity) * typeMultipliers(event.type) * decay

\* score += eventScore on sums kept as <<whole, rest>>
AddScores(a, b) ==
  LET r == a[2] + b[2]
  IN <<a[1] + b[1] + (r \div ScoreDenominator), r % ScoreDenominator>>

RECURSIVE ScoreSum(_, _, _, _)
\* the sum of the event scores of events[lo..hi] as <<whole, rest>>:
\* whole + rest / ScoreDenominator with rest < ScoreDenominator
ScoreSum(events, t, lo, hi) ==
  IF lo > hi THEN <<0, 0>>
  ELSE IF lo = hi
  THEN LET n == EventScoreNumerator(events[lo], t)
       IN <<n \div ScoreDenominator, n % ScoreDenominator>>
  ELSE LET mid == (lo + hi) \div 2
       IN CHOOSE s \in {AddScores(a, b) : a \in {ScoreSum(events, t, lo, mid)},
                                         b \in {ScoreSum(events, t, mid + 1, hi)}} : TRUE

\* mutant of calculateSuspiciousActivityScore: Math.round(score), not capped
calculateSuspiciousActivityScoreUncapped(events, t) ==
  LET s == ScoreSum(events, t, 1, Len(events))
  IN s[1] + (IF 2 * s[2] >= ScoreDenominator THEN 1 ELSE 0)

\* Math.min(100, Math.round(score))
calculateSuspiciousActivityScore(events, t) ==
  LET s == ScoreSum(events, t, 1, Len(events))
      rounded == s[1] + (IF 2 * s[2] >= ScoreDenominator THEN 1 ELSE 0)
  IN IF rounded > 100 THEN 100 ELSE rounded

ThreatLevel(score) ==
  IF score > 80 THEN "critical"
  ELSE IF score > 60 THEN "high"
  ELSE IF score > 30 THEN "medium"
  ELSE "low"

RECURSIVE MaxRange(_, _, _)
\* the largest timestamp of events[lo..hi], by halving
MaxRange(events, lo, hi) ==
  IF lo = hi THEN events[lo].timestamp
  ELSE LET mid == (lo + hi) \div 2
           a == MaxRange(events, lo, mid)
           b == MaxRange(events, mid + 1, hi)
       IN IF a >= b THEN a ELSE b

\* Math.max(...events.map((e) => e.timestamp)) of a non-empty list
MaxTimestamp(events) == MaxRange(events, 1, Len(events))

\* mutant of ComputeMetrics: the counts are taken over the last 24 hours
ComputeMetricsOfLastDay(events, t) ==
  LET recentEvents == SelectSeq(events, LAMBDA e : t - e.timestamp < DAY)
      score == calculateSuspiciousActivityScore(recentEvents, t)
      types == {recentEvents[i].type : i \in 1..Len(recentEvents)}
      sevs == {recentEvents[i].severity : i \in 1..Len(recentEvents)}
  IN [totalEvents |-> Len(events),
      eventsByType |-> [ty \in types |-> Count(recentEvents, LAMBDA e : e.type = ty)],
      eventsBySeverity |-> [s \in sevs |-> Count(recentEvents, LAMBDA e : e.severity = s)],
      lastEventTime |-> IF Len(events) > 0 THEN MaxTimestamp(events) ELSE 0,
      suspiciousActivityScore |-> score,
      threatLevel |-> ThreatLevel(score)]

\* the snapshot updateMetrics builds from the list it read, at time t
ComputeMetrics(events, t) ==
  LET recentEvents == SelectSeq(events, LAMBDA e : t - e.timestamp < DAY)
      score == calculateSuspiciousActivityScore(recentEvents, t)
      types == {events[i].type : i \in 1..Len(events)}
      sevs == {events[i].severity : i \in 1..Len(events)}
  IN [totalEvents |-> Len(events),
      eventsByType |-> [ty \in types |-> Count(events, LAMBDA e : e.type = ty)],
      eventsBySeverity |-> [s \in sevs |-> Count(events, LAMBDA e : e.severity = s)],
      lastEventTime |-> IF Len(events) > 0 THEN MaxTimestamp(events) ELSE 0,
      suspiciousActivityScore |-> score,
      threatLevel |-> ThreatLevel(score)]

\* ------------------------------------------------------ pattern engine
\* the event as the object getNestedValue walks
EventObject(event) ==
  Obj([k \in DOMAIN event |->
         IF k = "details" THEN Obj(event[k])
         ELSE IF k = "timestamp" THEN Num(event[k])
         ELSE IF k \in {"id", "type", "severity", "source", "userAgent"}
         THEN Str(event[k])
         ELSE event[k]])

\* current?.[key]
Member(current, key) ==
  IF current.t = "object" /\ key \in DOMAIN current.v THEN current.v[key] ELSE Undefined

RECURSIVE getNestedValue(_, _)
\* path.split('.').reduce((current, key) => current?.[key], obj)
getNestedValue(obj, path) ==
  IF path = <<>> THEN obj ELSE getNestedValue(Member(obj, Head(path)), Tail(path))

\* compareValues raises a TypeError: includes() of a regular expression, or
\* test() of a value that is no regular expression
compareThrows(actual, operator, expected) ==
  \/ operator = "contains" /\ actual.t = "string" /\ expected.t = "regex"
  \/ operator = "regex" /\ actual.t = "string" /\ expected.t # "regex"

\* mutant of compareValues: greater_than holds at equality
compareValuesAtLeast(actual, operator, expected) ==
  CASE operator = "equals" -> actual.t = expected.t /\ actual = expected
    [] operator = "greater_than" ->
         actual.t = "number" /\ expected.t = "number" /\ actual.v >= expected.v
    [] OTHER -> FALSE

compareValues(actual, operator, expected) ==
  CASE operator = "equals" -> actual.t = expected.t /\ actual = expected
    [] operator = "contains" ->
         actual.t = "string" /\ expected.t = "string" /\ actual.v = expected.v
    [] operator = "greater_than" ->
         actual.t = "number" /\ expected.t = "number" /\ actual.v > expected.v
    [] operator = "less_than" ->
         actual.t = "number" /\ expected.t = "number" /\ actual.v < expected.v
    [] operator = "regex" ->
         actual.t = "string" /\ expected.t = "regex" /\ RegexTest(expected.v, actual.v)
    [] OTHER -> FALSE

\* matchesIndicator at time t
matchesIndicator(indicator, event, recentEvents, t) ==
  IF indicator.field = <<"count_per_minute">>
  THEN compareValues(
         Num(Count(recentEvents,
                   LAMBDA e : e.timestamp > t - MINUTE /\ e.type = event.type)),
         indicator.operator, indicator.value)
  ELSE IF indicator.field = <<"count_per_hour">>
  THEN compareValues(
         Num(Count(recentEvents,
                   LAMBDA e : e.timestamp > t - HOUR /\ e.type = event.type)),
         indicator.operator, indicator.value)
  ELSE compareValues(getNestedValue(EventObject(event), indicator.field),
                     indicator.operator, indicator.value)

\* mutant of evaluateThreatPattern: the type of the indicator is not compared
evaluateThreatPatternOfAnyType(pattern, currentEvent, recentEvents, t) ==
  LET inds == pattern.indicators
      w == [i \in 1..Len(inds) |->
              IF matchesIndicator(inds[i], currentEvent, recentEvents, t)
              THEN inds[i].weight ELSE 0]
  IN SumRange(w, 1, Len(inds))

\* evaluateThreatPattern: the score, in tenths
evaluateThreatPattern(pattern, currentEvent, recentEvents, t) ==
  LET inds == pattern.indicators
      w == [i \in 1..Len(inds) |->
              IF inds[i].type = currentEvent.type
                 /\ matchesIndicator(inds[i], currentEvent, recentEvents, t)
              THEN inds[i].weight ELSE 0]
  IN SumRange(w, 1, Len(inds))

\* the pattern fires: score >= pattern.threshold
Fires(pattern, currentEvent, recentEvents, t) ==
  evaluateThreatPattern(pattern, currentEvent, recentEvents, t) >= pattern.threshold

\* the first pattern at index >= from that fires, or 0: the scan of the for
\* loop of checkThreatPatterns up to its next await
NextFiring(from, currentEvent, recentEvents, t) ==
  LET firing == {p \in from..Len(threatPatterns) :
                   Fires(threatPatterns[p], currentEvent, recentEvents, t)}
  IN IF firing = {} THEN 0 ELSE CHOOSE p \in firing : \A q \in firing : p <= q

\* mutant of ThreatEvent: the record names itself as the triggering event
ThreatEventOfItself(pattern, event, score, id, t) ==
  [id |-> id, type |-> "system", severity |-> "high", timestamp |-> t,
   source |-> "security_monitor",
   details |-> [threatPattern |-> Str(pattern.name), matchScore |-> Num(score),
                threshold |-> Num(pattern.threshold), triggeringEvent |-> Str(id),
                action |-> Str(pattern.action)]]

\* threatEvent of handleThreatDetection
ThreatEvent(pattern, event, score, id, t) ==
  [id |-> id, type |-> "system", severity |-> "high", timestamp |-> t,
   source |-> "security_monitor",
   details |-> [threatPattern |-> Str(pattern.name), matchScore |-> Num(score),
                threshold |-> Num(pattern.threshold), triggeringEvent |-> Str(event.id),
                action |-> Str(pattern.action)]]

\* mutant of ActionEvent: the block event has the severity of the alert
ActionEventOfOneSeverity(pattern, event) ==
  [type |-> "system",
   severity |-> "medium",
   source |-> "security_monitor",
   details |-> IF pattern.action = "block"
               THEN [action |-> Str("blocked"), reason |-> Str(pattern.name),
                     blockedEvent |-> Str(event.id)]
               ELSE [action |-> Str("alerted"), reason |-> Str(pattern.name),
                     alertedEvent |-> Str(event.id)]]

\* the event executeBlockAction / executeAlertAction passes to logEvent
ActionEvent(pattern, event) ==
  [type |-> "system",
   severity |-> IF pattern.action = "block" THEN "critical" ELSE "medium",
   source |-> "security_monitor",
   details |-> IF pattern.action = "block"
               THEN [action |-> Str("blocked"), reason |-> Str(pattern.name),
                     blockedEvent |-> Str(event.id)]
               ELSE [action |-> Str("alerted"), reason |-> Str(pattern.name),
                     alertedEvent |-> Str(event.id)]]

\* ------------------------------------------------------ anomaly detector
\* the keys of groupEventsByTimeWindow(events, 60 * 1000)
WindowKeys(events) == {events[i].timestamp \div MINUTE : i \in 1..Len(events)}

\* groupEventsByTimeWindow(events, 60 * 1000)
groupEventsByTimeWindow(events) ==
  [k \in WindowKeys(events) |-> Count(events, LAMBDA e : e.timestamp \div MINUTE = k)]

\* the frequency check of checkAnomalies at time t:
\* currentFrequency > mean + ANOMALY_THRESHOLD * stdDev over more than 5 buckets,
\* with mean = S/n and stdDev = sqrt(Q/n - (S/n)^2), compared without the root
FrequencyAnomaly(recentEvents, t) ==
  LET grouped == groupEventsByTimeWindow(recentEvents)
      keys == DOMAIN grouped
      n == Cardinality(keys)
      S == Len(recentEvents)
      sq == [i \in 1..Len(recentEvents) |->
               grouped[recentEvents[i].timestamp \div MINUTE]]
      Q == SumRange(sq, 1, Len(recentEvents))
      cur == IF (t \div MINUTE) \in keys THEN grouped[t \div MINUTE] ELSE 0
      d == cur * n - S
  IN /\ n > 5
     /\ d > 0
     /\ d * d > ANOMALY_THRESHOLD * ANOMALY_THRESHOLD * (n * Q - S * S)

\* currentFrequency equals mean + ANOMALY_THRESHOLD * stdDev exactly
FrequencyAtBound(recentEvents, t) ==
  LET grouped == groupEventsByTimeWindow(recentEvents)
      keys == DOMAIN grouped
      n == Cardinality(keys)
      S == Len(recentEvents)
      sq == [i \in 1..Len(recentEvents) |->
               grouped[recentEvents[i].timestamp \div MINUTE]]
      Q == SumRange(sq, 1, Len(recentEvents))
      cur == IF (t \div MINUTE) \in keys THEN grouped[t \div MINUTE] ELSE 0
      d == cur * n - S
  IN /\ n > 5
     /\ d > 0
     /\ d * d = ANOMALY_THRESHOLD * ANOMALY_THRESHOLD * (n * Q - S * S)

\* bucket counts at the bound for which the doubles of calculateStats fall
\* short of it: nine minutes of one event and a current minute of eight give
\* mean 1.7, variance 4.409999999999999, stdDev 2.0999999999999996 and
\* mean + 3 * stdDev = 7.999999999999999 with exactly rounded squares
RoundsBelow(recentEvents, t) ==
  LET grouped == groupEventsByTimeWindow(recentEvents)
      keys == DOMAIN grouped
  IN /\ Cardinality(keys) = 10
     /\ (t \div MINUTE) \in keys
     /\ \A k \in keys : grouped[k] = IF k = t \div MINUTE THEN 8 ELSE 1

\* the values the test currentFrequency > mean + ANOMALY_THRESHOLD * stdDev can
\* have: at the bound it is decided by the rounding of Math.pow, which is
\* implementation-approximated
FrequencyOutcomes(recentEvents, t) ==
  IF FrequencyAnomaly(recentEvents, t) THEN {TRUE}
  ELSE IF FrequencyAtBound(recentEvents, t) /\ RoundsBelow(recentEvents, t)
  THEN {TRUE, FALSE}
  ELSE {FALSE}

CurrentFrequency(recentEvents, t) ==
  Count(recentEvents, LAMBDA e : e.timestamp \div MINUTE = t \div MINUTE)

FrequencyEvent(recentEvents, t) ==
  [type |-> "system", severity |-> "medium", source |-> "anomaly_detector",
   details |-> [anomalyType |-> Str("frequency"),
                currentValue |-> Num(CurrentFrequency(recentEvents, t)),
                threshold |-> Num(ANOMALY_THRESHOLD)]]

FirstIndex(events, ty) ==
  CHOOSE i \in 1..Len(events) :
    events[i].type = ty /\ \A j \in 1..(i - 1) : events[j].type # ty

RECURSIVE OrderTypes(_, _)
\* the types in the order Object.entries(typeFrequencies) yields them
OrderTypes(tys, events) ==
  IF tys = {} THEN <<>>
  ELSE LET first == CHOOSE ty \in tys :
                      \A u \in tys : FirstIndex(events, ty) <= FirstIndex(events, u)
       IN <<first>> \o OrderTypes(tys \ {first}, events)

\* the types the for loop of checkAnomalies logs an anomaly for, in its order
HighFrequencyTypes(recentEvents) ==
  LET tys == {recentEvents[i].type : i \in 1..Len(recentEvents)}
      over == {ty \in tys :
                 Count(recentEvents, LAMBDA e : e.type = ty) > HIGH_FREQUENCY_THRESHOLD}
  IN OrderTypes(over, recentEvents)

HighFrequencyEvent(ty, recentEvents) ==
  [type |-> "system", severity |-> "medium", source |-> "anomaly_detector",
   details |-> [anomalyType |-> Str("high_frequency_event_type"),
                eventType |-> Str(ty),
                count |-> Num(Count(recentEvents, LAMBDA e : e.type = ty)),
                threshold |-> Num(HIGH_FREQUENCY_THRESHOLD),
                timeWindow |-> Str("24h")]]

\* ------------------------------------------------------ state
VARIABLES
  now,                       \* Date.now(), in ticks
  enabled,                   \* SecurityMonitor.enabled
  storageListenerRegistered, \* SecurityMonitor.storageListenerRegistered
  setting,                   \* chrome.storage.local[ENABLED_KEY]: "unset", "true" or "false"
  rateLimitTimestamps,       \* SecurityMonitor.rateLimitTimestamps
  store,                     \* SecureStorage[EVENTS_STORAGE_KEY] (absent = <<>>)
  metrics,                   \* SecureStorage[METRICS_STORAGE_KEY] (absent = NoMetrics)
  persistence,               \* the storage: whether it rejects, whether the event list is stored
  calls,                     \* the logEvent calls in flight, outermost first
  tasks,                     \* the other operations in flight, each at its await
  nextId,                    \* stands for generateEventId(): a fresh id per call
  callsMade,                 \* external logEvent calls so far
  hist                       \* history of the behaviour (read by the properties only)

vars == <<now, enabled, storageListenerRegistered, setting, rateLimitTimestamps,
          store, metrics, persistence, calls, tasks, nextId, callsMade, hist>>

\* no call of SecureStorage or chrome.storage rejects
StorageUp == ~persistence.rejects

\* mutant of OrDefault: what getItem answered, without the fallback
OrStored(present, value, fallback) == value

\* (await SecureStorage.getItem(key)) || fallback, for a stored value or none
OrDefault(present, value, fallback) == IF present THEN value ELSE fallback

\* getStoredEvents(): the stored list, [] when none is stored or the read rejects
getStoredEvents ==
  IF StorageUp THEN OrDefault(persistence.hasEvents, store, <<>>) ELSE <<>>

\* the storage after setItem(EVENTS_STORAGE_KEY, ...)
WithEvents == [persistence EXCEPT !.hasEvents = TRUE]

NoEvent == [absent |-> TRUE]

\* a logEvent call suspended at its first await (getStoredEvents)
NewFrame(fullEvent) ==
  [pc |-> "read", event |-> fullEvent, events |-> <<>>, snapshot |-> NoMetrics,
   recent |-> <<>>, pat |-> 0, threat |-> NoEvent, types |-> <<>>]

Top == calls[Len(calls)]
Below == SubSeq(calls, 1, Len(calls) - 1)
SetTop(f) == Append(Below, f)

IdleTask == [pc |-> "idle", events |-> <<>>, snapshot |-> NoMetrics, passTime |-> 0]

\* getEvents() without criteria
NoCriteria ==
  [type |-> Undefined, severity |-> Undefined, source |-> Undefined,
   since |-> Undefined, limit |-> Undefined]

\* no query operation in flight, none made yet
IdleApi ==
  [op |-> "none", pc |-> "idle", outcome |-> "none", criteria |-> NoCriteria,
   metrics |-> NoMetrics, events |-> <<>>, flag |-> TRUE, exportTime |-> 0,
   patterns |-> <<>>]

IdleTasks ==
  [setEnabled |-> "idle", init |-> IdleTask, cleanup |-> IdleTask, periodic |-> FALSE,
   api |-> IdleApi, refresh |-> IdleTask]

\* no run of the metrics timer yet
NoRun == [events |-> <<>>, snapshot |-> NoMetrics, at |-> -1, logged |-> 0, pruned |-> 0]

Last(op, called, severity, admitted) ==
  [op |-> op, called |-> called, severity |-> severity, admitted |-> admitted]

Did(op) == Last(op, FALSE, "", FALSE)

InitHist(events) ==
  [last |-> Did("init"), admitted |-> <<>>, rejected |-> 0,
   inserted |-> [i \in 1..Len(events) |-> events[i].id],
   persisted |-> {}, toggles |-> 0, passes |-> 0, inits |-> 0, maxDepth |-> 0,
   cleanedAt |-> 0, passFrom |-> <<>>, initFault |-> FALSE,
   queries |-> 0, faults |-> 0, apiRead |-> "none", clearedAt |-> -1, clearFrom |-> 0,
   fired |-> <<>>, runs |-> 0, prevRun |-> NoRun, lastRun |-> NoRun]

\* ------------------------------------------------------ logEvent
\* mutant of Admission: the rate limiter is applied whatever the severity
AdmissionLimitsAll(event, en, list, t) ==
  IF ~en THEN <<FALSE, list>>
  ELSE LET r == shouldRateLimit(list, t) IN <<~r[1], r[2]>>

\* mutant of Admission: the enabled flag is not looked at
AdmissionIgnoresEnabled(event, en, list, t) ==
  IF event.severity = "low"
  THEN LET r == shouldRateLimit(list, t) IN <<~r[1], r[2]>>
  ELSE <<TRUE, list>>

\* the head of logEvent, up to the first await: <<admitted, rateLimitTimestamps>>
Admission(event, en, list, t) ==
  IF ~en THEN <<FALSE, list>>
  ELSE IF event.severity = "low"
  THEN LET r == shouldRateLimit(list, t) IN <<~r[1], r[2]>>
  ELSE <<TRUE, list>>

\* logEvent(event) called with the calls of rest suspended below it; h is the
\* history the calling step leaves
Invoke(op, event, rest, h) ==
  LET a == Admission(event, enabled, rateLimitTimestamps, now)
  IN /\ a[1] => Len(rest) < MaxDepth
     /\ rateLimitTimestamps' = a[2]
     /\ calls' = IF a[1]
                 THEN Append(rest, NewFrame(FullEvent(event, nextId, now)))
                 ELSE rest
     /\ nextId' = IF a[1] THEN nextId + 1 ELSE nextId
     /\ hist' = [h EXCEPT
          !.last = Last(op, TRUE, event.severity, Len(calls') > Len(rest)),
          !.admitted = IF event.severity = "low" /\ Len(calls') > Len(rest)
                       THEN Append(@, now) ELSE @,
          !.rejected = IF event.severity = "low" /\ enabled /\ Len(calls') = Len(rest)
                       THEN @ + 1 ELSE @,
          !.maxDepth = IF Len(calls') > @ THEN Len(calls') ELSE @]

\* an external caller calls logEvent(event); one call is processed at a time
LogEventWithin(event, limit) ==
  /\ calls = <<>>
  /\ callsMade < limit
  /\ callsMade' = callsMade + 1
  /\ Invoke("logEvent", event, <<>>, hist)
  /\ UNCHANGED <<persistence, now, enabled, storageListenerRegistered, setting, store, metrics, tasks>>

LogEventCall(event) == LogEventWithin(event, MaxCalls)

\* getStoredEvents() answers: events.push(fullEvent) and the capacity limit
ReadEvents ==
  /\ calls # <<>> /\ Top.pc = "read"
  /\ calls' = SetTop([Top EXCEPT !.pc = "write",
                                 !.events = LimitStored(Append(getStoredEvents, Top.event))])
  /\ hist' = [hist EXCEPT !.last = Did("read")]
  /\ UNCHANGED <<persistence, now, enabled, storageListenerRegistered, setting, rateLimitTimestamps,
                 store, metrics, tasks, nextId, callsMade>>

\* SecureStorage.setItem(EVENTS_STORAGE_KEY, events), then updateMetrics() is
\* called; a rejected setItem is caught by logEvent, which returns
WriteEvents ==
  /\ calls # <<>> /\ Top.pc = "write"
  /\ IF StorageUp
     THEN /\ store' = Top.events
          /\ persistence' = WithEvents
          /\ calls' = SetTop([Top EXCEPT !.pc = "um_read", !.events = <<>>])
          /\ hist' = [hist EXCEPT
               !.last = Did("write"),
               !.inserted = Append(@, Top.event.id),
               !.persisted = @ \cup {[id |-> Top.event.id,
                                      timestamp |-> Top.event.timestamp]}]
     ELSE /\ UNCHANGED <<persistence, store>>
          /\ calls' = Below
          /\ hist' = [hist EXCEPT !.last = Did("caught")]
  /\ UNCHANGED <<now, enabled, storageListenerRegistered, setting, rateLimitTimestamps,
                 metrics, tasks, nextId, callsMade>>

\* updateMetrics() of logEvent: the read and the computation
MetricsRead ==
  /\ calls # <<>> /\ Top.pc = "um_read"
  /\ calls' = SetTop([Top EXCEPT !.pc = "um_write",
                                 !.events = getStoredEvents,
                                 !.snapshot = ComputeMetrics(getStoredEvents, now)])
  /\ hist' = [hist EXCEPT !.last = Did("um_read")]
  /\ UNCHANGED <<persistence, now, enabled, storageListenerRegistered, setting, rateLimitTimestamps,
                 store, metrics, tasks, nextId, callsMade>>

\* updateMetrics() of logEvent: the write (a rejected setItem is caught by
\* updateMetrics); then checkThreatPatterns() is called
MetricsWrite ==
  /\ calls # <<>> /\ Top.pc = "um_write"
  /\ metrics' = IF StorageUp THEN Top.snapshot ELSE metrics
  /\ calls' = SetTop([Top EXCEPT !.pc = "tp_read", !.events = <<>>,
                                 !.snapshot = NoMetrics])
  /\ hist' = [hist EXCEPT !.last = Did("um_write")]
  /\ UNCHANGED <<persistence, now, enabled, storageListenerRegistered, setting, rateLimitTimestamps,
                 store, tasks, nextId, callsMade>>

\* the for loop of checkThreatPatterns from pattern index from, up to the next
\* await: handleThreatDetection of the first firing pattern, or checkAnomalies
ScanPatterns(op, from, recentEvents) ==
  LET p == NextFiring(from, Top.event, recentEvents, now)
      pattern == threatPatterns[p]
      score == evaluateThreatPattern(pattern, Top.event, recentEvents, now)
  IN /\ IF p = 0
        THEN /\ calls' = SetTop([Top EXCEPT !.pc = "an_read", !.recent = <<>>])
             /\ nextId' = nextId
        ELSE /\ calls' = SetTop([Top EXCEPT
                  !.pc = "td_read", !.recent = recentEvents, !.pat = p,
                  !.threat = ThreatEvent(pattern, Top.event, score, nextId, now)])
             /\ nextId' = nextId + 1
     /\ hist' = [hist EXCEPT !.last = Did(op)]
     /\ UNCHANGED <<persistence, now, enabled, storageListenerRegistered, setting,
                    rateLimitTimestamps, store, metrics, tasks, callsMade>>

\* checkThreatPatterns(fullEvent): getStoredEvents() answers, the loop starts
PatternsRead ==
  /\ calls # <<>> /\ Top.pc = "tp_read"
  /\ ScanPatterns("tp_read", 1,
                  SelectSeq(getStoredEvents, LAMBDA e : now - e.timestamp < HOUR))

\* handleThreatDetection: getStoredEvents() answers, events.push(threatEvent)
DetectionRead ==
  /\ calls # <<>> /\ Top.pc = "td_read"
  /\ calls' = SetTop([Top EXCEPT !.pc = "td_write",
                                 !.events = Append(getStoredEvents, Top.threat)])
  /\ hist' = [hist EXCEPT !.last = Did("td_read")]
  /\ UNCHANGED <<persistence, now, enabled, storageListenerRegistered, setting, rateLimitTimestamps,
                 store, metrics, tasks, nextId, callsMade>>

\* handleThreatDetection: setItem of the detection record, then the action; a
\* rejected setItem leaves checkThreatPatterns and is caught by logEvent
DetectionWrite ==
  /\ calls # <<>> /\ Top.pc = "td_write"
  /\ LET pattern == threatPatterns[Top.pat]
         f == [Top EXCEPT !.pc = "tp_next", !.events = <<>>, !.threat = NoEvent]
         h == [hist EXCEPT !.inserted = Append(@, Top.threat.id),
                           !.fired = Append(@, [trigger |-> Top.event.id,
                                                pat |-> Top.pat])]
     IN IF ~StorageUp
        THEN /\ calls' = Below
             /\ hist' = [hist EXCEPT !.last = Did("caught")]
             /\ UNCHANGED <<persistence, store, rateLimitTimestamps, nextId>>
        ELSE /\ store' = Top.events
             /\ persistence' = WithEvents
             /\ IF pattern.action \in {"block", "alert"}
                THEN Invoke("td_write", ActionEvent(pattern, Top.event), SetTop(f), h)
                ELSE /\ calls' = SetTop(f)
                     /\ hist' = [h EXCEPT !.last = Did("td_write")]
                     /\ UNCHANGED <<rateLimitTimestamps, nextId>>
  /\ UNCHANGED <<now, enabled, storageListenerRegistered, setting, metrics, tasks,
                 callsMade>>

\* the for loop of checkThreatPatterns goes on after handleThreatDetection
PatternsNext ==
  /\ calls # <<>> /\ Top.pc = "tp_next"
  /\ ScanPatterns("tp_next", Top.pat + 1, Top.recent)

\* checkAnomalies(fullEvent): getStoredEvents() answers, the frequency check
AnomaliesRead ==
  /\ calls # <<>> /\ Top.pc = "an_read"
  /\ LET recentEvents == SelectSeq(getStoredEvents, LAMBDA e : now - e.timestamp < DAY)
         over == HighFrequencyTypes(recentEvents)
         f == [Top EXCEPT !.pc = "an_types",
                 !.types = [i \in 1..Len(over) |->
                              HighFrequencyEvent(over[i], recentEvents)]]
     IN \E emitted \in FrequencyOutcomes(recentEvents, now) :
          IF emitted
          THEN Invoke("an_read", FrequencyEvent(recentEvents, now), SetTop(f), hist)
          ELSE /\ calls' = SetTop(f)
               /\ hist' = [hist EXCEPT !.last = Did("an_read")]
               /\ UNCHANGED <<rateLimitTimestamps, nextId>>
  /\ UNCHANGED <<persistence, now, enabled, storageListenerRegistered, setting, store, metrics,
                 tasks, callsMade>>

\* the for loop over typeFrequencies: the next type over the threshold is
\* logged, or checkAnomalies and logEvent return
AnomaliesNext ==
  /\ calls # <<>> /\ Top.pc = "an_types"
  /\ IF Top.types = <<>>
     THEN /\ calls' = Below
          /\ hist' = [hist EXCEPT !.last = Did("return")]
          /\ UNCHANGED <<rateLimitTimestamps, nextId>>
     ELSE Invoke("an_types", Head(Top.types),
                 SetTop([Top EXCEPT !.types = Tail(@)]), hist)
  /\ UNCHANGED <<persistence, now, enabled, storageListenerRegistered, setting, store, metrics,
                 tasks, callsMade>>

\* the in-flight logEvent call resumes from its await
Step ==
  \/ ReadEvents
  \/ WriteEvents
  \/ MetricsRead
  \/ MetricsWrite
  \/ PatternsRead
  \/ DetectionRead
  \/ DetectionWrite
  \/ PatternsNext
  \/ AnomaliesRead
  \/ AnomaliesNext

\* the steps of a logEvent call during which no pattern fires
StepWithoutThreat ==
  \/ ReadEvents
  \/ WriteEvents
  \/ MetricsRead
  \/ MetricsWrite
  \/ PatternsRead
  \/ AnomaliesRead
  \/ AnomaliesNext

\* ------------------------------------------------------ clock
\* time passes: Date.now() advances by d ticks, up to limit
Tick(d, limit) ==
  /\ now + d <= limit
  /\ now' = now + d
  /\ hist' = [hist EXCEPT !.last = Did("tick")]
  /\ UNCHANGED <<persistence, enabled, storageListenerRegistered, setting, rateLimitTimestamps,
                 store, metrics, calls, tasks, nextId, callsMade>>

\* ------------------------------------------------------ enabled flag
\* chrome.storage.local[ENABLED_KEY] !== false
SettingValue(v) == v # "false"

\* the onChanged listener of registerStorageListener, called with newValue nv
Listener(nv) == IF storageListenerRegistered THEN SettingValue(nv) ELSE enabled

\* setEnabled(b): this.enabled = b, then the write of the setting is awaited
SetEnabledCall(b) ==
  /\ tasks.setEnabled = "idle"
  /\ hist.toggles < MaxToggles
  /\ enabled' = b
  /\ tasks' = [tasks EXCEPT !.setEnabled = IF b THEN "true" ELSE "false"]
  /\ hist' = [hist EXCEPT !.last = Did("setEnabled"), !.toggles = @ + 1]
  /\ UNCHANGED <<persistence, now, storageListenerRegistered, setting, rateLimitTimestamps, store,
                 metrics, calls, nextId, callsMade>>

\* chrome.storage.local.set({[ENABLED_KEY]: b}) takes effect and onChanged
\* fires; a rejected set is caught by setEnabled
SetEnabledWrite ==
  /\ tasks.setEnabled # "idle"
  /\ setting' = IF StorageUp THEN tasks.setEnabled ELSE setting
  /\ enabled' = IF StorageUp THEN Listener(tasks.setEnabled) ELSE enabled
  /\ tasks' = [tasks EXCEPT !.setEnabled = "idle"]
  /\ hist' = [hist EXCEPT !.last = Did("setEnabledWrite")]
  /\ UNCHANGED <<persistence, now, storageListenerRegistered, rateLimitTimestamps, store, metrics,
                 calls, nextId, callsMade>>

\* another component writes the setting; onChanged fires
ExternalChange(v) ==
  /\ setting # v
  /\ hist.toggles < MaxToggles
  /\ setting' = v
  /\ enabled' = Listener(v)
  /\ hist' = [hist EXCEPT !.last = Did("externalChange"), !.toggles = @ + 1]
  /\ UNCHANGED <<persistence, now, storageListenerRegistered, rateLimitTimestamps, store, metrics,
                 calls, tasks, nextId, callsMade>>

\* ------------------------------------------------------ retention
\* mutant of Keeps: the comparison is turned around
KeepsTheOld(event, cutoffTime) == event.timestamp < cutoffTime

\* mutant of Keeps: the cutoff is a minute too late
KeepsWithMargin(event, cutoffTime) == event.timestamp > cutoffTime + MINUTE

\* the filter of cleanupOldEvents: event.timestamp > cutoffTime
Keeps(event, cutoffTime) == event.timestamp > cutoffTime

\* recentEvents of cleanupOldEvents, from the list read at time t
RecentEvents(events, t) == SelectSeq(events, LAMBDA e : Keeps(e, t - RETENTION))

\* cleanupOldEvents() of task who: getStoredEvents() answers; without an old
\* event the pass is over and the task goes on at pc next
CleanupRead(who, next) ==
  /\ tasks[who].pc = "cl_read"
  /\ LET events == getStoredEvents
         recentEvents == RecentEvents(events, now)
         h == [hist EXCEPT !.initFault = @ \/ (who = "init" /\ ~StorageUp)]
     IN IF Len(recentEvents) # Len(events)
        THEN /\ tasks' = [tasks EXCEPT ![who].pc = "cl_write",
                                       ![who].events = recentEvents,
                                       ![who].passTime = now]
             /\ hist' = [h EXCEPT !.last = Did("cl_read")]
        ELSE /\ tasks' = [tasks EXCEPT ![who].pc = next, ![who].passTime = now]
             /\ hist' = IF StorageUp
                        THEN [h EXCEPT !.last = Did("cleaned"), !.cleanedAt = now]
                        ELSE [h EXCEPT !.last = Did("cleanupFailed")]
  /\ UNCHANGED <<persistence, now, enabled, storageListenerRegistered, setting, rateLimitTimestamps,
                 store, metrics, calls, nextId, callsMade>>

\* cleanupOldEvents() of task who: setItem(EVENTS_STORAGE_KEY, recentEvents); a
\* rejected setItem is caught by cleanupOldEvents
CleanupWrite(who, next) ==
  /\ tasks[who].pc = "cl_write"
  /\ tasks' = [tasks EXCEPT ![who].pc = next, ![who].events = <<>>]
  /\ IF StorageUp
     THEN /\ store' = tasks[who].events
          /\ persistence' = WithEvents
          /\ hist' = [hist EXCEPT !.last = Did("cleaned"),
                                  !.cleanedAt = tasks[who].passTime]
     ELSE /\ UNCHANGED <<persistence, store>>
          /\ hist' = [hist EXCEPT !.last = Did("cleanupFailed"),
                                  !.initFault = @ \/ who = "init"]
  /\ UNCHANGED <<now, enabled, storageListenerRegistered, setting, rateLimitTimestamps,
                 metrics, calls, nextId, callsMade>>

\* the hourly timer of startPeriodicTasks fires: cleanupOldEvents() is called
CleanupStart ==
  /\ tasks.periodic
  /\ tasks.cleanup.pc = "idle"
  /\ hist.passes < MaxPasses
  /\ tasks' = [tasks EXCEPT !.cleanup.pc = "cl_read"]
  /\ hist' = [hist EXCEPT !.last = Did("cleanupStart"), !.passes = @ + 1,
                          !.passFrom = store]
  /\ UNCHANGED <<persistence, now, enabled, storageListenerRegistered, setting, rateLimitTimestamps,
                 store, metrics, calls, nextId, callsMade>>

\* a periodic retention pass resumes from its await
CleanupStep ==
  \/ CleanupRead("cleanup", "idle")
  \/ CleanupWrite("cleanup", "idle")

\* ------------------------------------------------------ metrics timer
\* the 5-minute timer of startPeriodicTasks fires: updateMetrics() is called
RefreshStart ==
  /\ tasks.periodic
  /\ tasks.refresh.pc = "idle"
  /\ hist.runs < MaxRuns
  /\ tasks' = [tasks EXCEPT !.refresh.pc = "um_read"]
  /\ hist' = [hist EXCEPT !.last = Did("refreshStart"), !.runs = @ + 1]
  /\ UNCHANGED <<persistence, now, enabled, storageListenerRegistered, setting,
                 rateLimitTimestamps, store, metrics, calls, nextId, callsMade>>

\* updateMetrics() of the timer: the read and the computation
RefreshRead ==
  /\ tasks.refresh.pc = "um_read"
  /\ tasks' = [tasks EXCEPT !.refresh.pc = "um_write",
                            !.refresh.events = getStoredEvents,
                            !.refresh.snapshot = ComputeMetrics(getStoredEvents, now),
                            !.refresh.passTime = now]
  /\ hist' = [hist EXCEPT !.last = Did("refreshRead")]
  /\ UNCHANGED <<persistence, now, enabled, storageListenerRegistered, setting,
                 rateLimitTimestamps, store, metrics, calls, nextId, callsMade>>

\* updateMetrics() of the timer: the write (a rejected setItem is caught)
RefreshWrite ==
  /\ tasks.refresh.pc = "um_write"
  /\ metrics' = IF StorageUp THEN tasks.refresh.snapshot ELSE metrics
  /\ tasks' = [tasks EXCEPT !.refresh = IdleTask]
  /\ hist' = [hist EXCEPT
       !.last = Did("refreshed"),
       !.prevRun = hist.lastRun,
       !.lastRun = [events |-> tasks.refresh.events,
                    snapshot |-> tasks.refresh.snapshot,
                    at |-> tasks.refresh.passTime,
                    logged |-> Len(hist.inserted),
                    pruned |-> hist.passes + hist.inits]]
  /\ UNCHANGED <<persistence, now, enabled, storageListenerRegistered, setting,
                 rateLimitTimestamps, store, calls, nextId, callsMade>>

\* a run of the metrics timer resumes from its await
RefreshStep ==
  \/ RefreshRead
  \/ RefreshWrite

\* ------------------------------------------------------ initialize
\* initialize() is called: loadEnabledFromStorage() awaits the setting
InitializeCall ==
  /\ tasks.init.pc \in {"idle", "done"}
  /\ hist.inits < MaxInits
  /\ tasks' = [tasks EXCEPT !.init.pc = "load"]
  /\ hist' = [hist EXCEPT !.last = Did("initialize"), !.inits = @ + 1,
                          !.initFault = FALSE]
  /\ UNCHANGED <<persistence, now, enabled, storageListenerRegistered, setting, rateLimitTimestamps,
                 store, metrics, calls, nextId, callsMade>>

\* the setting is read (a rejected read is caught by loadEnabledFromStorage,
\* which enables); a disabled monitor returns, an enabled one registers the
\* storage listener and calls cleanupOldEvents()
InitializeLoad ==
  /\ tasks.init.pc = "load"
  /\ enabled' = IF StorageUp THEN SettingValue(setting) ELSE TRUE
  /\ IF enabled'
     THEN /\ storageListenerRegistered' = TRUE
          /\ tasks' = [tasks EXCEPT !.init.pc = "cl_read"]
          /\ hist' = [hist EXCEPT !.last = Did("load"), !.passFrom = store,
                                  !.initFault = ~StorageUp]
     ELSE /\ storageListenerRegistered' = storageListenerRegistered
          /\ tasks' = [tasks EXCEPT !.init.pc = "done"]
          /\ hist' = [hist EXCEPT !.last = Did("initialized")]
  /\ UNCHANGED <<persistence, now, setting, rateLimitTimestamps, store, metrics, calls, nextId,
                 callsMade>>

\* updateMetrics() of initialize: the read and the computation
InitializeMetricsRead ==
  /\ tasks.init.pc = "um_read"
  /\ tasks' = [tasks EXCEPT !.init.pc = "um_write",
                            !.init.events = getStoredEvents,
                            !.init.snapshot = ComputeMetrics(getStoredEvents, now)]
  /\ hist' = [hist EXCEPT !.last = Did("um_read"), !.initFault = @ \/ ~StorageUp]
  /\ UNCHANGED <<persistence, now, enabled, storageListenerRegistered, setting, rateLimitTimestamps,
                 store, metrics, calls, nextId, callsMade>>

\* updateMetrics() of initialize: the write; startPeriodicTasks(); return
InitializeMetricsWrite ==
  /\ tasks.init.pc = "um_write"
  /\ metrics' = IF StorageUp THEN tasks.init.snapshot ELSE metrics
  /\ tasks' = [tasks EXCEPT !.init.pc = "done", !.init.events = <<>>,
                            !.init.snapshot = NoMetrics, !.periodic = TRUE]
  /\ hist' = [hist EXCEPT !.last = Did("initialized"), !.initFault = @ \/ ~StorageUp]
  /\ UNCHANGED <<persistence, now, enabled, storageListenerRegistered, setting, rateLimitTimestamps,
                 store, calls, nextId, callsMade>>

\* initialize() resumes from its await
InitializeStep ==
  \/ InitializeLoad
  \/ CleanupRead("init", "um_read")
  \/ CleanupWrite("init", "um_read")
  \/ InitializeMetricsRead
  \/ InitializeMetricsWrite

\* ------------------------------------------------------ queries
\* a value in a JavaScript condition
Truthy(v) ==
  CASE v.t = "undefined" -> FALSE
    [] v.t = "boolean" -> v.v
    [] v.t = "number" -> v.v # 0
    [] v.t = "string" -> v.v # ""
    [] OTHER -> TRUE

\* mutant of StaysAhead: oldest first
StaysAheadOfNewer(a, b) == a.timestamp <= b.timestamp

\* the comparator (a, b) => b.timestamp - a.timestamp leaves a before b
StaysAhead(a, b) == a.timestamp >= b.timestamp

\* events.sort((a, b) => b.timestamp - a.timestamp): a stable sort; an event
\* comes after those the comparator leaves ahead of it
SortNewestFirst(events) ==
  LET n == Len(events)
      rank == [i \in 1..n |->
                 1 + Cardinality({j \in 1..n :
                       \/ j < i /\ StaysAhead(events[j], events[i])
                       \/ j > i /\ ~StaysAhead(events[i], events[j])})]
  IN [k \in 1..n |-> events[CHOOSE i \in 1..n : rank[i] = k]]

\* the list getEvents(criteria) returns for the list getStoredEvents() gave
GetEventsResult(list, criteria) ==
  LET byType == IF Truthy(criteria.type)
                THEN SelectSeq(list, LAMBDA e : Str(e.type) = criteria.type)
                ELSE list
      bySeverity == IF Truthy(criteria.severity)
                    THEN SelectSeq(byType, LAMBDA e : Str(e.severity) = criteria.severity)
                    ELSE byType
      bySource == IF Truthy(criteria.source)
                  THEN SelectSeq(bySeverity, LAMBDA e : Str(e.source) = criteria.source)
                  ELSE bySeverity
      since == IF criteria.since.t = "number"
               THEN SelectSeq(bySource, LAMBDA e : e.timestamp >= criteria.since.v)
               ELSE bySource
      sorted == SortNewestFirst(since)
  IN IF Truthy(criteria.limit) /\ criteria.limit.t = "number" /\ criteria.limit.v > 0
     THEN SubSeq(sorted, 1, IF criteria.limit.v < Len(sorted)
                            THEN criteria.limit.v ELSE Len(sorted))
     ELSE sorted

\* how the read of a stored item went: rejected, nothing stored, or a value
ReadOf(present) ==
  IF ~StorageUp THEN "rejected" ELSE IF present THEN "value" ELSE "absent"

\* the metrics getMetrics() returns
GetMetricsResult ==
  IF StorageUp THEN OrDefault(metrics # NoMetrics, metrics, defaultMetrics)
  ELSE defaultMetrics

\* a query operation is called and suspends at its first await
ApiCall(op, pc, criteria) ==
  /\ tasks.api.pc = "idle"
  /\ hist.queries < MaxQueries
  /\ tasks' = [tasks EXCEPT !.api = [IdleApi EXCEPT !.op = op, !.pc = pc,
                                                    !.outcome = "pending",
                                                    !.criteria = criteria]]
  /\ hist' = [hist EXCEPT !.last = Did("call"), !.queries = @ + 1, !.apiRead = "none",
                          !.clearFrom = IF op = "clearEvents" THEN nextId ELSE @]
  /\ UNCHANGED <<persistence, now, enabled, storageListenerRegistered, setting,
                 rateLimitTimestamps, store, metrics, calls, nextId, callsMade>>

\* the query operation in flight returns with result fields r
ApiReturn(r, read) ==
  /\ tasks' = [tasks EXCEPT !.api = [r EXCEPT !.pc = "idle", !.outcome = "returned"]]
  /\ hist' = [hist EXCEPT !.last = Did(tasks.api.op), !.apiRead = read]

GetMetricsCall == ApiCall("getMetrics", "gm_read", NoCriteria)

\* getMetrics(): getItem(METRICS_STORAGE_KEY) answers or rejects
GetMetricsRead ==
  /\ tasks.api.pc = "gm_read"
  /\ ApiReturn([tasks.api EXCEPT !.metrics = GetMetricsResult],
               ReadOf(metrics # NoMetrics))
  /\ UNCHANGED <<persistence, now, enabled, storageListenerRegistered, setting,
                 rateLimitTimestamps, store, metrics, calls, nextId, callsMade>>

GetEventsCall(criteria) == ApiCall("getEvents", "ge_read", criteria)

\* getEvents(criteria): getStoredEvents() answers
GetEventsRead ==
  /\ tasks.api.pc = "ge_read"
  /\ ApiReturn([tasks.api EXCEPT
                  !.events = GetEventsResult(getStoredEvents, tasks.api.criteria)],
               ReadOf(persistence.hasEvents))
  /\ UNCHANGED <<persistence, now, enabled, storageListenerRegistered, setting,
                 rateLimitTimestamps, store, metrics, calls, nextId, callsMade>>

\* mutant of ReportWindow: the trailing day
ReportWindowOfADay == DAY

\* the window of exportSecurityReport: 7 * 24 * 60 * 60 * 1000
ReportWindow == 7 * DAY

\* mutant of ClearedMetrics: the snapshot stays
ClearedMetricsKept(snapshot) == snapshot

\* the metrics item after removeItem(METRICS_STORAGE_KEY)
ClearedMetrics(snapshot) == NoMetrics

ClearEventsCall == ApiCall("clearEvents", "ce_events", NoCriteria)

\* clearEvents(): a rejected removeItem is logged and thrown again
ClearEventsThrows ==
  /\ tasks' = [tasks EXCEPT !.api.pc = "idle", !.api.outcome = "threw"]
  /\ hist' = [hist EXCEPT !.last = Did("clearEvents"), !.apiRead = "rejected"]
  /\ UNCHANGED <<persistence, store, metrics>>

\* clearEvents(): removeItem(EVENTS_STORAGE_KEY)
ClearEventsRemoveEvents ==
  /\ tasks.api.pc = "ce_events"
  /\ IF StorageUp
     THEN /\ store' = <<>>
          /\ persistence' = [persistence EXCEPT !.hasEvents = FALSE]
          /\ tasks' = [tasks EXCEPT !.api.pc = "ce_metrics"]
          /\ hist' = [hist EXCEPT !.last = Did("ce_events")]
          /\ UNCHANGED metrics
     ELSE ClearEventsThrows
  /\ UNCHANGED <<now, enabled, storageListenerRegistered, setting,
                 rateLimitTimestamps, calls, nextId, callsMade>>

\* clearEvents(): removeItem(METRICS_STORAGE_KEY), then it returns
ClearEventsRemoveMetrics ==
  /\ tasks.api.pc = "ce_metrics"
  /\ IF StorageUp
     THEN /\ metrics' = ClearedMetrics(metrics)
          /\ tasks' = [tasks EXCEPT !.api.pc = "idle", !.api.outcome = "returned"]
          /\ hist' = [hist EXCEPT !.last = Did("clearEvents"), !.clearedAt = callsMade]
          /\ UNCHANGED <<persistence, store>>
     ELSE ClearEventsThrows
  /\ UNCHANGED <<now, enabled, storageListenerRegistered, setting,
                 rateLimitTimestamps, calls, nextId, callsMade>>

ExportCall == ApiCall("exportSecurityReport", "ex_metrics", NoCriteria)

\* exportSecurityReport(): getMetrics() answers, getEvents({since, limit}) is called
ExportMetricsRead ==
  /\ tasks.api.pc = "ex_metrics"
  /\ tasks' = [tasks EXCEPT
       !.api.pc = "ex_events",
       !.api.metrics = GetMetricsResult,
       !.api.criteria = [NoCriteria EXCEPT !.since = Num(now - ReportWindow),
                                           !.limit = Num(100)]]
  /\ hist' = [hist EXCEPT !.last = Did("ex_metrics")]
  /\ UNCHANGED <<persistence, now, enabled, storageListenerRegistered, setting,
                 rateLimitTimestamps, store, metrics, calls, nextId, callsMade>>

\* exportSecurityReport(): getEvents() answers, the report is returned
ExportEventsRead ==
  /\ tasks.api.pc = "ex_events"
  /\ ApiReturn([tasks.api EXCEPT
                  !.events = GetEventsResult(getStoredEvents, tasks.api.criteria),
                  !.patterns = threatPatterns,
                  !.exportTime = now],
               ReadOf(persistence.hasEvents))
  /\ UNCHANGED <<persistence, now, enabled, storageListenerRegistered, setting,
                 rateLimitTimestamps, store, metrics, calls, nextId, callsMade>>

GetEnabledCall == ApiCall("getEnabled", "en_read", NoCriteria)

\* getEnabled(): chrome.storage.local.get answers; a rejected get yields true
GetEnabledRead ==
  /\ tasks.api.pc = "en_read"
  /\ ApiReturn([tasks.api EXCEPT
                  !.flag = IF StorageUp THEN SettingValue(setting) ELSE TRUE],
               ReadOf(setting # "unset"))
  /\ UNCHANGED <<persistence, now, enabled, storageListenerRegistered, setting,
                 rateLimitTimestamps, store, metrics, calls, nextId, callsMade>>

\* a query operation resumes from its await
ApiStep ==
  \/ GetMetricsRead
  \/ GetEventsRead
  \/ ClearEventsRemoveEvents
  \/ ClearEventsRemoveMetrics
  \/ ExportMetricsRead
  \/ ExportEventsRead
  \/ GetEnabledRead

\* ------------------------------------------------------ storage failures
\* the storage starts to reject every get, set and remove
StorageFails ==
  /\ StorageUp
  /\ hist.faults < MaxFaults
  /\ persistence' = [persistence EXCEPT !.rejects = TRUE]
  /\ hist' = [hist EXCEPT !.last = Did("storageFails"), !.faults = @ + 1]
  /\ UNCHANGED <<now, enabled, storageListenerRegistered, setting, rateLimitTimestamps,
                 store, metrics, calls, tasks, nextId, callsMade>>

\* the storage works again
StorageRecovers ==
  /\ ~StorageUp
  /\ persistence' = [persistence EXCEPT !.rejects = FALSE]
  /\ hist' = [hist EXCEPT !.last = Did("storageRecovers")]
  /\ UNCHANGED <<now, enabled, storageListenerRegistered, setting, rateLimitTimestamps,
                 store, metrics, calls, tasks, nextId, callsMade>>

\* ------------------------------------------------------ inputs
\* events callers submit (Omit<SecurityEvent, 'id' | 'timestamp'>)
LowTool ==
  [type |-> "tool_usage", severity |-> "low", source |-> "tool_executor",
   details |-> [toolName |-> Str("navigate")]]

AuthFailure ==
  [type |-> "authentication", severity |-> "medium", source |-> "external_auth",
   details |-> [success |-> Bool(FALSE)]]

\* ------------------------------------------------------ stored logs
\* event logs earlier logEvent calls leave behind

\* failed logins a minute apart, as many as stay under both thresholds
BurstAfter(older) ==
  [i \in 1..HIGH_FREQUENCY_THRESHOLD |->
     FullEvent(AuthFailure, Len(older) + i,
               StartTime - (HIGH_FREQUENCY_THRESHOLD + 1 - i) * MINUTE)]

BurstStore == BurstAfter(<<>>)

TypeCycle == <<"tool_usage", "network", "data_access", "permission", "authentication">>

\* a log at capacity: events of every type 40 minutes apart, all older than a
\* day and younger than the retention age, then the failed logins
FullStore ==
  LET older == MAX_STORED_EVENTS - HIGH_FREQUENCY_THRESHOLD
  IN [i \in 1..MAX_STORED_EVENTS |->
        IF i <= older
        THEN FullEvent([type |-> TypeCycle[(i % 5) + 1], severity |-> "low",
                        source |-> "extension", details |-> [note |-> Str("routine")]],
                       i, StartTime - DAY - (older + 1 - i) * 40 * MINUTE)
        ELSE FullEvent(AuthFailure, i, StartTime - (MAX_STORED_EVENTS + 1 - i) * MINUTE)]

Routine ==
  [type |-> "tool_usage", severity |-> "medium", source |-> "extension",
   details |-> [note |-> Str("routine")]]

\* a log the hourly pass is due on: an event past the retention age, one at
\* it exactly, one a tick younger and one of the last hour
AgedStore ==
  << FullEvent(Routine, 1, StartTime - RETENTION - MINUTE),
     FullEvent(Routine, 2, StartTime - RETENTION),
     FullEvent(Routine, 3, StartTime - RETENTION + 1),
     FullEvent(Routine, 4, StartTime - HOUR) >>

\* the two oldest events of AgedStore, then the failed logins
AgedBurstStore == SubSeq(AgedStore, 1, 2) \o BurstAfter(SubSeq(AgedStore, 1, 2))

\* the snapshot the last logEvent call left for a stored log
StoredMetrics(events) ==
  IF events = <<>> THEN NoMetrics
  ELSE ComputeMetrics(events, events[Len(events)].timestamp)

\* an id no stored event has: generateEventId() yields fresh ids
FreshId(events) ==
  LET ids == {events[i].id : i \in 1..Len(events)}
  IN IF ids = {} THEN 1 ELSE 1 + (CHOOSE m \in ids : \A k \in ids : k <= m)

\* a fresh process with the stored log events and the persisted setting
InitWith(events, persisted) ==
  /\ now = StartTime
  /\ enabled = TRUE
  /\ storageListenerRegistered = FALSE
  /\ setting = persisted
  /\ rateLimitTimestamps = <<>>
  /\ store = events
  /\ metrics = StoredMetrics(events)
  /\ persistence = [rejects |-> FALSE, hasEvents |-> events # <<>>]
  /\ calls = <<>>
  /\ tasks = IdleTasks
  /\ nextId = FreshId(events)
  /\ callsMade = 0
  /\ hist = InitHist(events)

\* ------------------------------------------------------ specifications
\* event ingestion: bursts of events within seconds, the enabled flag toggled
Init == \E events \in {<<>>, BurstStore} : InitWith(events, "unset")

Next ==
  \/ \E event \in {LowTool, AuthFailure} : LogEventCall(event)
  \/ Step
  \/ \E d \in {2, 4} : calls = <<>> /\ Tick(d, StartTime + Horizon)
  \/ \E b \in BOOLEAN : SetEnabledCall(b)
  \/ SetEnabledWrite

Spec == Init /\ [][Next]_vars

\* the event log at capacity: events a minute apart
InitCapacity == InitWith(FullStore, "unset")

NextCapacity ==
  \/ \E event \in {LowTool, AuthFailure} : LogEventCall(event)
  \/ Step
  \/ calls = <<>> /\ Tick(MINUTE, StartTime + 2 * MINUTE)
  \/ SetEnabledCall(FALSE)
  \/ SetEnabledWrite

SpecCapacity == InitCapacity /\ [][NextCapacity]_vars

\* retention: an initialized engine whose hourly pass races with logEvent; on
\* these logs no pattern fires, so handleThreatDetection is not entered
InitInitialized(events) ==
  /\ now = StartTime
  /\ enabled = TRUE
  /\ storageListenerRegistered = TRUE
  /\ setting = "unset"
  /\ rateLimitTimestamps = <<>>
  /\ store = events
  /\ metrics = StoredMetrics(events)
  /\ persistence = [rejects |-> FALSE, hasEvents |-> events # <<>>]
  /\ calls = <<>>
  /\ tasks = [IdleTasks EXCEPT !.init.pc = "done", !.periodic = TRUE]
  /\ nextId = FreshId(events)
  /\ callsMade = 0
  /\ hist = InitHist(events)

InitRetention ==
  \E events \in {AgedStore, SubSeq(AgedStore, 3, 4)} : InitInitialized(events)

NextRetention ==
  \/ \E event \in {AuthFailure} : callsMade < MaxRaces /\ LogEventCall(event)
  \/ StepWithoutThreat
  \/ CleanupStart
  \/ CleanupStep
  \/ Tick(1, StartTime + 1)

SpecRetention == InitRetention /\ [][NextRetention]_vars

\* start-up: initialize() on a fresh process, the setting changed from outside
InitStartup ==
  \E events \in {<<>>, AgedStore, AgedBurstStore}, persisted \in {"unset", "true", "false"} :
    InitWith(events, persisted)

NextStartup ==
  \/ InitializeCall
  \/ InitializeStep
  \/ \E v \in {"true", "false"} : ExternalChange(v)
  \/ \E event \in {AuthFailure} : LogEventCall(event)
  \/ Step

SpecStartup == InitStartup /\ [][NextStartup]_vars

\* n failed logins of the last three minutes, four a minute: too few minutes
\* for the frequency check of checkAnomalies
RecentFailures(n) ==
  [i \in 1..n |->
     FullEvent(AuthFailure, i, StartTime - 3 * MINUTE + ((i - 1) \div 4) * MINUTE)]

\* nine recent failed logins after one that is an hour old
StaleThenRecent == <<FullEvent(AuthFailure, 10, StartTime - HOUR)>> \o RecentFailures(9)

\* the count of the trailing hour is around the threshold of failed_authentication
InitPatterns ==
  \E events \in {RecentFailures(9), RecentFailures(10), StaleThenRecent} :
    InitWith(events, "unset")

NextPatterns ==
  \/ \E event \in {AuthFailure} : callsMade < MaxRaces /\ LogEventCall(event)
  \/ Step
  \/ calls = <<>> /\ Tick(MINUTE, StartTime + MINUTE)
  \/ \E b \in {FALSE} : SetEnabledCall(b)
  \/ SetEnabledWrite

SpecPatterns == InitPatterns /\ [][NextPatterns]_vars

\* metrics: initialize(), logEvent and the 5-minute timer, one at a time
InitMetrics == \E events \in {<<>>, AgedStore} : InitWith(events, "unset")

\* neither logEvent nor initialize() nor a run of the timer is in flight
Quiet ==
  /\ calls = <<>>
  /\ tasks.init.pc \in {"idle", "done"}
  /\ tasks.refresh.pc = "idle"

NextMetrics ==
  \/ Quiet /\ InitializeCall
  \/ InitializeStep
  \/ \E event \in {AuthFailure} : Quiet /\ callsMade < MaxRaces /\ LogEventCall(event)
  \/ StepWithoutThreat
  \/ Quiet /\ RefreshStart
  \/ RefreshStep
  \/ Quiet /\ Tick(5 * MINUTE, StartTime + MaxRuns * 5 * MINUTE)

SpecMetrics == InitMetrics /\ [][NextMetrics]_vars

\* criteria callers pass to getEvents
Criteria ==
  { NoCriteria,
    [NoCriteria EXCEPT !.type = Str("authentication")],
    [NoCriteria EXCEPT !.severity = Str("medium"), !.source = Str("extension"),
                       !.limit = Num(2)],
    [NoCriteria EXCEPT !.since = Num(StartTime - HOUR)],
    [NoCriteria EXCEPT !.since = Num(0), !.limit = Num(0)],
    [NoCriteria EXCEPT !.type = Str(""), !.source = Str(""), !.limit = Num(1)] }

\* the query operations and logEvent used one at a time
InitApi == \E events \in {<<>>, AgedStore} : InitWith(events, "unset")

NextApi ==
  \/ \E event \in {AuthFailure} :
       calls = <<>> /\ tasks.api.pc = "idle" /\ callsMade < MaxRaces /\ LogEventCall(event)
  \/ StepWithoutThreat
  \/ calls = <<>> /\ GetMetricsCall
  \/ \E criteria \in Criteria : calls = <<>> /\ GetEventsCall(criteria)
  \/ calls = <<>> /\ ClearEventsCall
  \/ calls = <<>> /\ ExportCall
  \/ calls = <<>> /\ GetEnabledCall
  \/ ApiStep

SpecApi == InitApi /\ [][NextApi]_vars

\* the public operations used one at a time, on a storage that may reject
InitFaults == InitWith(AgedStore, "unset")

\* public operations called so far
OpsMade == hist.queries + callsMade + hist.toggles

\* no operation is in flight and another may be called
MayCall == calls = <<>> /\ tasks.api.pc = "idle" /\ OpsMade < MaxQueries

NextFaults ==
  \/ \E event \in {AuthFailure} : MayCall /\ LogEventCall(event)
  \/ StepWithoutThreat
  \/ MayCall /\ GetMetricsCall
  \/ MayCall /\ GetEventsCall(NoCriteria)
  \/ MayCall /\ ClearEventsCall
  \/ MayCall /\ ExportCall
  \/ MayCall /\ GetEnabledCall
  \/ ApiStep
  \/ \E b \in BOOLEAN : MayCall /\ SetEnabledCall(b)
  \/ SetEnabledWrite
  \/ StorageFails
  \/ StorageRecovers

SpecFaults == InitFaults /\ [][NextFaults]_vars

\* initialize() on a storage that may reject
InitFaultyStart ==
  \E events \in {AgedStore}, persisted \in {"unset", "false"} : InitWith(events, persisted)

NextFaultyStart ==
  \/ InitializeCall
  \/ InitializeStep
  \/ StorageFails
  \/ StorageRecovers

SpecFaultyStart == InitFaultyStart /\ [][NextFaultyStart]_vars

\* the event executeBlockAction logs: critical, of type system
BlockNotice ==
  [type |-> "system", severity |-> "critical", source |-> "security_monitor",
   details |-> [action |-> Str("blocked")]]

\* a step of the clock that ends one tick before the six hours are over
QuarterDay == 6 * HOUR

\* decay: the log holds one critical system event logged at StartTime; the
\* metrics timer recomputes the score as the event ages
InitDecay == InitInitialized(<<FullEvent(BlockNotice, 1, StartTime)>>)

NextDecay ==
  \/ RefreshStart
  \/ RefreshStep
  \/ \E d \in {QuarterDay, QuarterDay - 1} :
       tasks.refresh.pc = "idle" /\ Tick(d, StartTime + DAY)

SpecDecay == InitDecay /\ [][NextDecay]_vars

\* n block notices logged at StartTime
Notices(n) == [i \in 1..n |-> FullEvent(BlockNotice, i, StartTime)]

\* threat levels: critical and medium events are logged one at a time and the
\* metrics timer recomputes the score as they age
InitBands == \E n \in 0..2 : InitInitialized(Notices(n))

NextBands ==
  \/ \E event \in {BlockNotice, AuthFailure} :
       Quiet /\ callsMade < MaxRaces /\ LogEventCall(event)
  \/ StepWithoutThreat
  \/ Quiet /\ RefreshStart
  \/ RefreshStep
  \/ Quiet /\ Tick(QuarterDay, StartTime + DAY)

SpecBands == InitBands /\ [][NextBands]_vars

\* reports: exportSecurityReport() on an empty log, a short log and a log at
\* capacity with more than 100 events of the last 7 days, as time passes
InitExport == \E events \in {<<>>, AgedStore, FullStore} : InitWith(events, "unset")

NextExport ==
  \/ ExportCall
  \/ ExportMetricsRead
  \/ ExportEventsRead
  \/ Tick(3 * DAY, StartTime + 9 * DAY)

SpecExport == InitExport /\ [][NextExport]_vars

\* events that carry the fields the indicators name as properties of their own
NetworkProbe ==
  [type |-> "network", severity |-> "medium", source |-> "fetch", details |-> [n |-> Num(1)],
   domain |-> Str("10.0.0.1"), protocol |-> Str("http"), upload_size_mb |-> Num(6)]

NetworkPlain ==
  [type |-> "network", severity |-> "medium", source |-> "fetch", details |-> [n |-> Num(2)],
   domain |-> Str("example.org"), protocol |-> Str("http")]

Escalation ==
  [type |-> "permission", severity |-> "high", source |-> "extension",
   details |-> [n |-> Num(3)], escalation |-> Bool(TRUE)]

\* a data_access event over the size limit that also names an upload size
DataUpload ==
  [type |-> "data_access", severity |-> "medium", source |-> "extension",
   details |-> [n |-> Num(4)], size_mb |-> Num(11), upload_size_mb |-> Num(6)]

\* the same fields inside details
EscalationInDetails ==
  [type |-> "permission", severity |-> "high", source |-> "extension",
   details |-> [escalation |-> Bool(TRUE), consent_bypassed |-> Bool(TRUE)]]

\* fields of the wrong type: a number where the regular expression is tested,
\* a text where the size is compared
Malformed ==
  [type |-> "network", severity |-> "medium", source |-> "fetch", details |-> [n |-> Num(5)],
   domain |-> Num(10), protocol |-> Bool(TRUE), upload_size_mb |-> Str("6")]

ScoringEvents ==
  {NetworkProbe, NetworkPlain, Escalation, DataUpload, EscalationInDetails, Malformed,
   AuthFailure}

\* pattern evaluation: events of every kind are logged one at a time
InitScoring == InitWith(<<>>, "unset")

NextScoring ==
  \/ \E event \in ScoringEvents : callsMade < MaxRaces /\ LogEventCall(event)
  \/ Step

SpecScoring == InitScoring /\ [][NextScoring]_vars

\* ------------------------------------------------------ compareValues alone
\* the values a field can resolve to and an indicator can name
ActualValues ==
  {Undefined, Bool(TRUE), Num(5), Num(11), Str("10.0.0.1"), Str("http"),
   Obj([n |-> Num(1)])}

ExpectedValues == {Bool(TRUE), Num(10), Str("http"), Regex("ipv4")}

Operators == {"equals", "contains", "greater_than", "less_than", "regex", "matches"}

\* compareValues(actual, operator, expected) is entered
CompareCall(actual, operator, expected) ==
  /\ calls = <<>>
  /\ calls' = <<[pc |-> "cv_call", actual |-> actual, operator |-> operator,
                 expected |-> expected, outcome |-> "pending", result |-> FALSE]>>
  /\ UNCHANGED <<now, enabled, storageListenerRegistered, setting, rateLimitTimestamps,
                 store, metrics, persistence, tasks, nextId, callsMade, hist>>

\* the switch of compareValues: a value is returned or the TypeError of
\* includes() or test() leaves the function
CompareEvaluate ==
  /\ calls # <<>>
  /\ Top.pc = "cv_call"
  /\ calls' = SetTop(
       IF compareThrows(Top.actual, Top.operator, Top.expected)
       THEN [Top EXCEPT !.pc = "cv_done", !.outcome = "threw"]
       ELSE [Top EXCEPT !.pc = "cv_done", !.outcome = "returned",
                        !.result = compareValues(Top.actual, Top.operator, Top.expected)])
  /\ UNCHANGED <<now, enabled, storageListenerRegistered, setting, rateLimitTimestamps,
                 store, metrics, persistence, tasks, nextId, callsMade, hist>>

\* the caller has the result
CompareDone ==
  /\ calls # <<>>
  /\ Top.pc = "cv_done"
  /\ calls' = <<>>
  /\ UNCHANGED <<now, enabled, storageListenerRegistered, setting, rateLimitTimestamps,
                 store, metrics, persistence, tasks, nextId, callsMade, hist>>

InitCompare == InitWith(<<>>, "unset")

NextCompare ==
  \/ \E actual \in ActualValues, operator \in Operators, expected \in ExpectedValues :
       CompareCall(actual, operator, expected)
  \/ CompareEvaluate
  \/ CompareDone

SpecCompare == InitCompare /\ [][NextCompare]_vars

\* pattern actions: events that fire 'alert' and 'block' patterns, the monitor
\* switched off while a call is in flight
InitActions == InitWith(<<>>, "unset")

NextActions ==
  \/ \E event \in {NetworkProbe, NetworkPlain, Escalation} :
       callsMade < MaxRaces /\ LogEventCall(event)
  \/ Step
  \/ \E b \in {FALSE} : SetEnabledCall(b)
  \/ SetEnabledWrite

SpecActions == InitActions /\ [][NextActions]_vars

\* events that reach the threshold of two patterns, logged into an empty log
\* and into a log with more than HIGH_FREQUENCY_THRESHOLD events of one type;
\* every call in flight is resumed
InitBusy ==
  \E events \in {<<>>, RecentFailures(HIGH_FREQUENCY_THRESHOLD + 1)} :
    InitWith(events, "unset")

NextBusy ==
  \/ \E event \in {NetworkProbe, NetworkPlain, Escalation} :
       callsMade < MaxRaces /\ LogEventCall(event)
  \/ Step

FairSpecBusy == InitBusy /\ [][NextBusy]_vars /\ WF_vars(Step)

\* failed logins and plain network events of the last three minutes, more than
\* HIGH_FREQUENCY_THRESHOLD of each type
TwoBusyTypes ==
  LET n == HIGH_FREQUENCY_THRESHOLD + 1
  IN RecentFailures(n) \o
     [i \in 1..n |->
        FullEvent(NetworkPlain, n + i, StartTime - 3 * MINUTE + ((i - 1) \div 4) * MINUTE)]

\* the volume check: logs with a type at the threshold, one type over it and
\* two types over it; every call in flight is resumed
InitVolume ==
  \E events \in {RecentFailures(HIGH_FREQUENCY_THRESHOLD),
                 RecentFailures(HIGH_FREQUENCY_THRESHOLD + 1), TwoBusyTypes} :
    InitWith(events, "unset")

NextVolume ==
  \/ \E event \in {AuthFailure, NetworkPlain, NetworkProbe} :
       callsMade < MaxRaces /\ LogEventCall(event)
  \/ Step

FairSpecVolume == InitVolume /\ [][NextVolume]_vars /\ WF_vars(Step)

\* routine events of every type in turn
RoutineOf(i) ==
  [type |-> TypeCycle[(i % 5) + 1], severity |-> "medium", source |-> "extension",
   details |-> [note |-> Str("routine")]]

\* a log with one event in each of the m minutes before the current one and k
\* events in the current minute
Sparse(m, k) ==
  [i \in 1..(m + k) |->
     FullEvent(RoutineOf(i), i, IF i <= m THEN StartTime - (m + 1 - i) * MINUTE
                                ELSE StartTime)]

\* the frequency check: logs with 5, 6, 10 and 11 minutes in use
InitFrequency ==
  \E events \in {Sparse(4, 1), Sparse(5, 1), Sparse(9, 0), Sparse(9, 6), Sparse(10, 0)} :
    InitWith(events, "unset")

NextFrequency ==
  \/ \E event \in {Routine, NetworkProbe} : callsMade < MaxRaces /\ LogEventCall(event)
  \/ Step

SpecFrequency == InitFrequency /\ [][NextFrequency]_vars

\* the rate limiter under load: low-severity tool events arrive in bursts while
\* the clock moves by a quarter, a half or the whole of the 1-second window
InitLimiter == InitWith(<<>>, "unset")

NextLimiter ==
  \/ LogEventWithin(LowTool, MaxAttempts)
  \/ StepWithoutThreat
  \/ \E d \in {1, 2, 4} : calls = <<>> /\ Tick(d, StartTime + Horizon)

SpecLimiter == InitLimiter /\ [][NextLimiter]_vars

\* clearEvents() called while logEvent calls are in flight
InitClearing == \E events \in {<<>>, AgedStore} : InitWith(events, "unset")

NextClearing ==
  \/ \E event \in {AuthFailure} : callsMade < MaxRaces /\ LogEventCall(event)
  \/ StepWithoutThreat
  \/ ClearEventsCall
  \/ ClearEventsRemoveEvents
  \/ ClearEventsRemoveMetrics

SpecClearing == InitClearing /\ [][NextClearing]_vars

\* a burst of failed logins: the in-flight call is always resumed
InitBurst == InitWith(BurstStore, "unset")

NextBurst ==
  \/ \E event \in {AuthFailure, LowTool} : LogEventCall(event)
  \/ Step
  \/ SetEnabledCall(FALSE)
  \/ SetEnabledWrite

FairSpec == InitBurst /\ [][NextBurst]_vars /\ WF_vars(Step)

\* ------------------------------------------------------ properties
\* the low-severity events admitted in the window [t, t + RATE_LIMIT_WINDOW)
AdmittedWithin(t) ==
  Cardinality({i \in 1..Len(hist.admitted) :
                 t <= hist.admitted[i] /\ hist.admitted[i] < t + Ticks(RATE_LIMIT_WINDOW)})

\* C1: of the low-severity events logged while the engine is enabled, at most
\* RATE_LIMIT_MAX_EVENTS are admitted within any window of RATE_LIMIT_WINDOW
C1_AtMostFivePerWindow ==
  \A t \in (StartTime - Ticks(RATE_LIMIT_WINDOW))..now :
    AdmittedWithin(t) <= RATE_LIMIT_MAX_EVENTS

\* C1 witness: a full window of admitted low-severity events, the next one dropped
C1_Witness ==
  /\ AdmittedWithin(now - Ticks(RATE_LIMIT_WINDOW) + 1) = RATE_LIMIT_MAX_EVENTS
  /\ hist.last.op = "logEvent" /\ hist.last.severity = "low" /\ ~hist.last.admitted
  /\ enabled

\* C2: a logEvent call with an event of severity medium, high or critical,
\* made while enabled, leaves rateLimitTimestamps alone and goes on to the
\* read of the store that precedes the append
C2_AboveLowNeverLimited ==
  [][(hist'.last.called /\ hist'.last.severity # "low" /\ enabled)
       => /\ rateLimitTimestamps' = rateLimitTimestamps
          /\ hist'.last.admitted
          /\ calls' # <<>>
          /\ calls'[Len(calls')].pc = "read"
          /\ calls'[Len(calls')].event.severity = hist'.last.severity]_vars

\* C2 witness: a medium event admitted while the limiter is at its cap
C2_Witness ==
  /\ hist.last.op = "logEvent" /\ hist.last.severity = "medium" /\ hist.last.admitted
  /\ Len(FilterWindow(rateLimitTimestamps, now)) = RATE_LIMIT_MAX_EVENTS

\* C6: inside one external logEvent call the engine's own logEvent calls nest
\* at most one level deep
C6_NestingAtMostOne == Len(calls) <= 2

\* C7: with the enabled flag false a logEvent call is a no-op: it changes
\* neither the stored events, nor the metrics snapshot, nor rateLimitTimestamps,
\* and no call is left in flight
C7_DisabledIsNoOp ==
  [][(hist'.last.called /\ ~enabled)
       => /\ UNCHANGED <<persistence, metrics, rateLimitTimestamps, nextId>>
          /\ ~hist'.last.admitted
          /\ Len(calls') <= Len(calls)
          /\ (hist'.last.op = "logEvent" => UNCHANGED <<persistence, store, calls>>)]_vars

\* C7 witness: logEvent called on a disabled engine that holds events and metrics
C7_Witness ==
  /\ hist.last.op = "logEvent" /\ ~hist.last.admitted /\ ~enabled
  /\ store # <<>> /\ metrics # NoMetrics

\* C3: the persisted event list never holds more than MAX_STORED_EVENTS events
C3_StoreWithinCapacity == Len(store) <= MAX_STORED_EVENTS

\* C4: once more than MAX_STORED_EVENTS events have been inserted, the list a
\* logEvent append leaves in the store holds exactly MAX_STORED_EVENTS events:
\* the most recently inserted ones, in insertion order
C4_OldestEvictedFirst ==
  (hist.last.op = "write" /\ Len(hist.inserted) > MAX_STORED_EVENTS)
    => /\ Len(store) = MAX_STORED_EVENTS
       /\ \A i \in 1..MAX_STORED_EVENTS :
            store[i].id = hist.inserted[Len(hist.inserted) - MAX_STORED_EVENTS + i]

\* C4 witness: an append to a full log has evicted the two oldest events
C4_Witness ==
  /\ hist.last.op = "write"
  /\ Len(hist.inserted) = MAX_STORED_EVENTS + 2
  /\ Len(store) = MAX_STORED_EVENTS
  /\ store[1].id = hist.inserted[3]

C8_FlagFollowsSetting ==
  (tasks.init.pc = "done" /\ hist.last.op = "externalChange")
    => enabled = SettingValue(setting)

\* C9: when no logEvent call and no retention pass is in flight, every event
\* a logEvent call persisted that is younger than the retention age is stored
C9_NoLostUpdate ==
  (calls = <<>> /\ tasks.cleanup.pc = "idle")
    => \A p \in hist.persisted :
         now - p.timestamp < RETENTION
           => \E i \in 1..Len(store) : store[i].id = p.id

\* C10: when a retention pass has completed, no stored event is older, at
\* the time of the pass, than the retention age
C10_NoOldEventAfterPass ==
  hist.last.op = "cleaned"
    => \A i \in 1..Len(store) : hist.cleanedAt - store[i].timestamp <= RETENTION

\* C10 witness: a completed pass has removed events and kept others
C10_Witness ==
  /\ hist.last.op = "cleaned"
  /\ store # <<>>
  /\ \E k \in 1..Len(hist.inserted) :
       \A i \in 1..Len(store) : store[i].id # hist.inserted[k]

\* the events of a list that are younger than the retention age at time t
Younger(events, t) == SelectSeq(events, LAMBDA e : t - e.timestamp < RETENTION)

\* C11: a retention pass keeps every event younger than the retention age
\* that was stored when the pass started, in the same order; a pass whose
\* read finds every event younger than the retention age ends without a write
C11_YoungEventsKept ==
  /\ [](hist.last.op = "cleaned"
          => LET young == Younger(hist.passFrom, hist.cleanedAt)
                 ids == {young[i].id : i \in 1..Len(young)}
             IN SelectSeq(store, LAMBDA e : e.id \in ids) = young)
  /\ [][\A who \in {"init", "cleanup"} :
          (tasks[who].pc = "cl_read" /\ tasks'[who].pc # "cl_read"
             /\ Younger(store, now) = store)
            => store' = store /\ tasks'[who].pc # "cl_write"]_vars

\* C11 witness: a pass that found nothing to remove has left alone a store
\* with an event one tick younger than the retention age
C11_Witness ==
  /\ hist.last.op = "cleaned" /\ hist.passes > 0
  /\ store = hist.passFrom
  /\ \E i \in 1..Len(store) : hist.cleanedAt - store[i].timestamp = RETENTION - 1

\* C12: once clearEvents() has returned and no logEvent call was made since,
\* getMetrics() returns the zeroed default snapshot and getEvents() returns the
\* empty list.
C12_ClearedThenDefaults ==
  (tasks.api.outcome = "returned" /\ hist.clearedAt = callsMade)
    => /\ tasks.api.op = "getMetrics" => tasks.api.metrics = defaultMetrics
       /\ tasks.api.op = "getEvents" => tasks.api.events = <<>>

\* getMetrics() has answered after a clearEvents() that removed a written snapshot
C12_Witness ==
  /\ hist.last.op = "getMetrics"
  /\ tasks.api.outcome = "returned"
  /\ hist.clearedAt = callsMade
  /\ hist.persisted # {}
  /\ tasks.api.metrics = defaultMetrics
  /\ metrics = NoMetrics /\ store = <<>>

\* a criterion is given: a non-empty text
Given(v) == v.t = "string" /\ v.v # ""

\* event e satisfies every given criterion of c
Satisfies(e, c) ==
  /\ Given(c.type) => e.type = c.type.v
  /\ Given(c.severity) => e.severity = c.severity.v
  /\ Given(c.source) => e.source = c.source.v
  /\ c.since.t = "number" => e.timestamp >= c.since.v

\* C13: getEvents(criteria) returns exactly the stored events that satisfy every
\* given criterion, newest first, cut to the `limit` newest of them when
\* limit > 0, and leaves the persisted list as it was.
C13_GetEventsResult ==
  [][(tasks.api.op = "getEvents" /\ tasks.api.pc = "ge_read" /\ tasks'.api.pc = "idle")
       => LET c == tasks.api.criteria
              result == tasks'.api.events
              matching == SelectSeq(store, LAMBDA e : Satisfies(e, c))
              cut == c.limit.t = "number" /\ c.limit.v > 0 /\ c.limit.v < Len(matching)
          IN /\ store' = store /\ persistence' = persistence
             /\ \A i \in 1..Len(result) : \E j \in 1..Len(matching) : result[i] = matching[j]
             /\ \A i, j \in 1..Len(result) : i < j => result[i] # result[j]
             /\ \A i, j \in 1..Len(result) :
                  i < j => result[i].timestamp >= result[j].timestamp
             /\ Len(result) = IF cut THEN c.limit.v ELSE Len(matching)
             /\ \A j \in 1..Len(matching) :
                  (\A i \in 1..Len(result) : result[i] # matching[j])
                    => \A i \in 1..Len(result) : result[i].timestamp >= matching[j].timestamp
    ]_vars

\* getEvents has answered a query with two criteria and a limit that cut the
\* matching events, and the result is in the reverse of the stored order
C13_Witness ==
  /\ hist.last.op = "getEvents"
  /\ Given(tasks.api.criteria.severity) /\ Given(tasks.api.criteria.source)
  /\ Len(tasks.api.events) = 2
  /\ Len(SelectSeq(store, LAMBDA e : Satisfies(e, tasks.api.criteria))) > 2
  /\ Len(SelectSeq(store, LAMBDA e : Satisfies(e, tasks.api.criteria))) < Len(store)
  /\ tasks.api.events[1].timestamp > tasks.api.events[2].timestamp
  /\ tasks.api.events[1] = store[4]

\* the detection records in the stored log
IsDetection(e) ==
  /\ e.type = "system" /\ e.source = "security_monitor"
  /\ "triggeringEvent" \in DOMAIN e.details

\* the stored detection records of pattern p for the triggering event id
DetectionsOf(id, p) ==
  {i \in 1..Len(store) :
     /\ IsDetection(store[i])
     /\ store[i].details.triggeringEvent = Str(id)
     /\ store[i].details.threatPattern = Str(threatPatterns[p].name)}

\* the patterns from index from on whose summed score reaches the threshold
Reaching(from, event, recentEvents) ==
  {p \in from..Len(threatPatterns) :
     evaluateThreatPattern(threatPatterns[p], event, recentEvents, now)
       >= threatPatterns[p].threshold}

\* C14: a pattern whose summed score reaches its threshold fires once for the
\* triggering event, and every firing leaves exactly one record of type
\* 'system' in the log whose details.action is the action of the pattern and
\* whose details.triggeringEvent is the id of the triggering event.
C14_OneDetectionPerFiring ==
  /\ [](/\ \A i, j \in 1..Len(hist.fired) : i < j => hist.fired[i] # hist.fired[j]
        /\ \A k \in 1..Len(hist.fired) :
             LET f == hist.fired[k]
             IN /\ Cardinality(DetectionsOf(f.trigger, f.pat)) = 1
                /\ \A i \in DetectionsOf(f.trigger, f.pat) :
                     /\ store[i].details.action = Str(threatPatterns[f.pat].action)
                     /\ store[i].details.action.v \in {"log", "alert", "block"}
        /\ Cardinality({i \in 1..Len(store) : IsDetection(store[i])}) = Len(hist.fired))
  /\ [][\A pc \in {"tp_read", "tp_next"} :
         (calls # <<>> /\ Top.pc = pc /\ Len(calls') >= Len(calls)
            /\ calls'[Len(calls)].pc # pc)
           => LET recentEvents ==
                    IF pc = "tp_read"
                    THEN SelectSeq(store, LAMBDA e : now - e.timestamp < HOUR)
                    ELSE Top.recent
                  reaching == Reaching(IF pc = "tp_read" THEN 1 ELSE Top.pat + 1,
                                       Top.event, recentEvents)
                  f == calls'[Len(calls)]
              IN IF reaching = {}
                 THEN f.pc = "an_read"
                 ELSE /\ f.pc = "td_read"
                      /\ f.pat \in reaching /\ \A q \in reaching : f.pat <= q
                      /\ [trigger |-> Top.event.id, pat |-> f.pat]
                           \notin {hist.fired[k] : k \in 1..Len(hist.fired)}]_vars

\* a failed login has fired failed_authentication, the alert was logged and
\* the call has returned: the log holds the detection record and the alert
C14_Witness ==
  /\ calls = <<>>
  /\ Len(hist.fired) = 1
  /\ threatPatterns[hist.fired[1].pat].id = "failed_authentication"
  /\ \E i \in DetectionsOf(hist.fired[1].trigger, hist.fired[1].pat) :
       /\ store[i].details.action = Str("alert")
       /\ \E j \in (i + 1)..Len(store) :
            /\ store[j].type = "system"
            /\ store[j].details.action = Str("alerted")

\* the authentication events of the stored log in the hour before now
AuthenticationsOfLastHour ==
  Cardinality({i \in 1..Len(store) :
                 store[i].type = "authentication" /\ now - store[i].timestamp < HOUR})

\* C15: when checkThreatPatterns runs for a failed login from 'external_auth',
\* failed_authentication fires if more than 10 authentication events lie in the
\* trailing hour and does not fire if 10 or fewer do.
C15_FailedAuthenticationFires ==
  [][(/\ calls # <<>> /\ Top.pc = "tp_read"
      /\ Top.event.type = "authentication" /\ Top.event.source = "external_auth"
      /\ Top.event.details.success = Bool(FALSE)
      /\ Len(calls') >= Len(calls) /\ calls'[Len(calls)].pc # "tp_read")
       => LET f == calls'[Len(calls)]
          IN (AuthenticationsOfLastHour > 10)
               <=> /\ f.pc = "td_read"
                   /\ threatPatterns[f.pat].id = "failed_authentication"
                   /\ f.threat.details.triggeringEvent = Str(Top.event.id)]_vars

\* the eleventh failed login of the hour has fired the pattern, after one that
\* was the tenth and did not
C15_Witness ==
  /\ calls # <<>> /\ Top.pc = "td_read"
  /\ Top.event.type = "authentication"
  /\ threatPatterns[Top.pat].id = "failed_authentication"
  /\ AuthenticationsOfLastHour = 11
  /\ callsMade = 2
  /\ hist.fired = <<>>

\* C16: no public operation other than initialize() throws to its caller, also
\* when the storage rejects: every query or administrative call returns normally.
C16_NoOperationThrows == tasks.api.outcome # "threw"

\* C17: initialize() does not complete normally when a storage call it made
\* while loading the flag, pruning old events or recomputing metrics rejected.
C17_FailedStartRejects ==
  ~(hist.initFault /\ tasks.init.pc = "done" /\ hist.last.op = "initialized")

\* C18: when the stored event list or metrics snapshot is absent or its read
\* rejects, getEvents returns the empty list and getMetrics the zeroed default;
\* getMetrics never returns the absent value.
C18_DefaultsWhenMissing ==
  tasks.api.outcome = "returned"
    => /\ (tasks.api.op = "getMetrics" /\ hist.apiRead \in {"absent", "rejected"})
            => tasks.api.metrics = defaultMetrics
       /\ (tasks.api.op = "getEvents" /\ hist.apiRead \in {"absent", "rejected"})
            => tasks.api.events = <<>>
       /\ tasks.api.op = "getMetrics" => tasks.api.metrics # NoMetrics

\* the read of getMetrics() was rejected while a snapshot and events were stored
C18_Witness ==
  /\ hist.last.op = "getMetrics"
  /\ tasks.api.outcome = "returned"
  /\ hist.apiRead = "rejected"
  /\ metrics # NoMetrics /\ metrics # defaultMetrics /\ store # <<>>
  /\ tasks.api.metrics = defaultMetrics

\* the entry of key k in a map of counts, 0 when the map has no such key
CountAt(map, k) == IF k \in DOMAIN map THEN map[k] ELSE 0

RECURSIVE SumOfCounts(_, _)
\* the sum of the entries of a map of counts over the keys ks
SumOfCounts(map, ks) ==
  IF ks = {} THEN 0
  ELSE LET k == CHOOSE x \in ks : TRUE
       IN map[k] + SumOfCounts(map, ks \ {k})

\* snapshot m is consistent with the event list events
Consistent(m, events) ==
  LET types == {events[i].type : i \in 1..Len(events)}
      sevs == {events[i].severity : i \in 1..Len(events)}
  IN /\ m.totalEvents = Len(events)
     /\ DOMAIN m.eventsByType = types
     /\ DOMAIN m.eventsBySeverity = sevs
     /\ \A ty \in types :
          CountAt(m.eventsByType, ty)
            = Cardinality({i \in 1..Len(events) : events[i].type = ty})
     /\ \A sv \in sevs :
          CountAt(m.eventsBySeverity, sv)
            = Cardinality({i \in 1..Len(events) : events[i].severity = sv})
     /\ SumOfCounts(m.eventsByType, DOMAIN m.eventsByType) = m.totalEvents
     /\ SumOfCounts(m.eventsBySeverity, DOMAIN m.eventsBySeverity) = m.totalEvents
     /\ IF events = <<>> THEN m.lastEventTime = 0
        ELSE /\ \E i \in 1..Len(events) : m.lastEventTime = events[i].timestamp
             /\ \A i \in 1..Len(events) : m.lastEventTime >= events[i].timestamp

\* C19: every snapshot updateMetrics writes is consistent with the event list
\* it read: totalEvents and the counts by type and by severity are taken over
\* the whole list, each map sums to totalEvents, and lastEventTime is the
\* newest timestamp (0 for an empty list).
C19_SnapshotConsistent ==
  [][/\ (calls # <<>> /\ Top.pc = "um_write" /\ Len(calls') = Len(calls)
           /\ calls'[Len(calls)].pc = "tp_read")
          => Consistent(metrics', Top.events)
     /\ (tasks.init.pc = "um_write" /\ tasks'.init.pc = "done")
          => Consistent(metrics', tasks.init.events)
     /\ (tasks.refresh.pc = "um_write" /\ tasks'.refresh.pc = "idle")
          => Consistent(metrics', tasks.refresh.events)]_vars

\* the timer has written the snapshot of a log of two types whose older events
\* are not of the last 24 hours
C19_Witness ==
  /\ hist.last.op = "refreshed"
  /\ metrics = hist.lastRun.snapshot
  /\ hist.lastRun.events = store
  /\ metrics.totalEvents = 4
  /\ CountAt(metrics.eventsByType, "tool_usage") = 2
  /\ CountAt(metrics.eventsByType, "authentication") = 2
  /\ \E i \in 1..Len(store) : hist.lastRun.at - store[i].timestamp > DAY
  /\ metrics.lastEventTime = store[4].timestamp

\* C20: two runs of updateMetrics with no event logged and no retention pass
\* between them, reading the same list, write identical snapshots, whatever
\* time passes between the runs.
C20_RecomputationIdempotent ==
  (/\ hist.prevRun.at >= 0
   /\ hist.lastRun.events = hist.prevRun.events
   /\ hist.lastRun.logged = hist.prevRun.logged
   /\ hist.lastRun.pruned = hist.prevRun.pruned)
    => hist.lastRun.snapshot = hist.prevRun.snapshot

\* the age of the single logged event at the last run of the metrics timer
AgeAtLastRun == hist.lastRun.at - hist.lastRun.events[1].timestamp

\* C21 (as stated): the score of a single critical system event is 33 at age
\* 0, never increases as the event ages, and tends to 0 as the age approaches
\* 24 hours: it is 0 from some age below 24 hours on.
C21_ScoreDecaysToZero ==
  (hist.lastRun.at >= 0 /\ Len(hist.lastRun.events) = 1)
    => /\ AgeAtLastRun = 0 => hist.lastRun.snapshot.suspiciousActivityScore = 33
       /\ hist.prevRun.at >= 0
            => hist.lastRun.snapshot.suspiciousActivityScore
                 <= hist.prevRun.snapshot.suspiciousActivityScore
       /\ AgeAtLastRun >= DAY - 4
            => hist.lastRun.snapshot.suspiciousActivityScore = 0

\* C21 (amended): the score of a single critical system event is 33 at age 0
\* and never increases as the event ages; it is at least round(25 x 0.1 x 1.3)
\* = 3 at every age below 24 hours, 3 just below 24 hours, and 0 from 24 hours on.
C21_ScoreDecaysToFloor ==
  (hist.lastRun.at >= 0 /\ Len(hist.lastRun.events) = 1)
    => /\ AgeAtLastRun = 0 => hist.lastRun.snapshot.suspiciousActivityScore = 33
       /\ hist.prevRun.at >= 0
            => hist.lastRun.snapshot.suspiciousActivityScore
                 <= hist.prevRun.snapshot.suspiciousActivityScore
       /\ AgeAtLastRun < DAY => hist.lastRun.snapshot.suspiciousActivityScore >= 3
       /\ (AgeAtLastRun >= DAY - 4 /\ AgeAtLastRun < DAY)
            => hist.lastRun.snapshot.suspiciousActivityScore = 3
       /\ AgeAtLastRun >= DAY => hist.lastRun.snapshot.suspiciousActivityScore = 0

\* the score was 33 at age 0 and is 3 one tick before the event is a day old
C21_Witness ==
  /\ hist.prevRun.at >= 0
  /\ hist.prevRun.snapshot.suspiciousActivityScore = 33
  /\ Len(hist.lastRun.events) = 1
  /\ AgeAtLastRun = DAY - 1
  /\ hist.lastRun.snapshot.suspiciousActivityScore = 3

\* C22: in every persisted metrics snapshot suspiciousActivityScore is an
\* integer in 0..100 and threatLevel is the band of the score: critical above
\* 80, high above 60, medium above 30, low otherwise.
C22_ScoreAndBand ==
  metrics # NoMetrics
    => LET score == metrics.suspiciousActivityScore
           level == metrics.threatLevel
       IN /\ score \in 0..100
          /\ level \in {"low", "medium", "high", "critical"}
          /\ level = "critical" <=> score > 80
          /\ level = "high" <=> (60 < score /\ score <= 80)
          /\ level = "medium" <=> (30 < score /\ score <= 60)
          /\ level = "low" <=> score <= 30

\* four fresh critical events sum to 130: the snapshot holds the capped score
C22_Witness ==
  /\ metrics # NoMetrics
  /\ metrics.suspiciousActivityScore = 100
  /\ metrics.threatLevel = "critical"
  /\ metrics.totalEvents = 4
  /\ \A i \in 1..Len(store) :
       store[i].severity = "critical" /\ store[i].timestamp = now

\* C23: exportSecurityReport() returns the stored metrics snapshot (the
\* default when none is stored), the pattern table, and as recentEvents the
\* stored events of the 7 days before its call of getEvents, newest first, cut
\* to the 100 newest; neither the stored log nor the stored metrics change.
C23_ExportReport ==
  [][/\ (tasks.api.pc = "ex_metrics" /\ tasks'.api.pc = "ex_events")
          => /\ tasks'.api.metrics = IF metrics = NoMetrics THEN defaultMetrics ELSE metrics
             /\ tasks'.api.criteria.since = Num(now - 7 * DAY)
             /\ store' = store /\ metrics' = metrics /\ persistence' = persistence
     /\ (tasks.api.pc = "ex_events" /\ tasks'.api.pc = "idle")
          => LET result == tasks'.api.events
                 recent == SelectSeq(store, LAMBDA e :
                                       e.timestamp >= tasks.api.criteria.since.v)
             IN /\ store' = store /\ metrics' = metrics /\ persistence' = persistence
                /\ tasks'.api.metrics = tasks.api.metrics
                /\ tasks'.api.patterns = threatPatterns
                /\ tasks'.api.exportTime = now
                /\ \A i \in 1..Len(result) : \E j \in 1..Len(recent) : result[i] = recent[j]
                /\ \A i, j \in 1..Len(result) :
                     i < j => /\ result[i] # result[j]
                              /\ result[i].timestamp >= result[j].timestamp
                /\ Len(result) = IF Len(recent) > 100 THEN 100 ELSE Len(recent)
                /\ \A j \in 1..Len(recent) :
                     (\A i \in 1..Len(result) : result[i] # recent[j])
                       => \A i \in 1..Len(result) :
                            result[i].timestamp >= recent[j].timestamp]_vars

\* a report of a log with more than 100 events of the last 7 days and older
\* ones: the 100 newest are returned
C23_Witness ==
  /\ hist.last.op = "exportSecurityReport"
  /\ tasks.api.outcome = "returned"
  /\ Len(tasks.api.events) = 100
  /\ Len(SelectSeq(store, LAMBDA e : e.timestamp >= tasks.api.criteria.since.v)) > 100
  /\ \E i \in 1..Len(store) : store[i].timestamp < tasks.api.criteria.since.v
  /\ tasks.api.events[1] = store[Len(store)]
  /\ tasks.api.metrics = metrics
  /\ tasks.api.patterns = threatPatterns

\* the indicators of pattern p that event e satisfies: of the type of e, with a
\* matching condition
Satisfied(p, e, recentEvents) ==
  LET inds == threatPatterns[p].indicators
  IN {i \in 1..Len(inds) :
        inds[i].type = e.type /\ matchesIndicator(inds[i], e, recentEvents, now)}

\* the sum of the weights of the indicators of pattern p that event e satisfies
WeightSum(p, e, recentEvents) ==
  LET inds == threatPatterns[p].indicators
  IN SumOfCounts([i \in 1..Len(inds) |-> inds[i].weight], Satisfied(p, e, recentEvents))

\* the patterns that have fired for the event with this id
FiredFor(id) ==
  {p \in 1..Len(threatPatterns) :
     \E k \in 1..Len(hist.fired) : hist.fired[k] = [trigger |-> id, pat |-> p]}

\* C24: the match score of a pattern for an event is the sum of the weights of
\* exactly the indicators of the event's type whose condition matches, and the
\* pattern fires if and only if that score is at least its threshold.
C24_ScoreIsWeightSum ==
  [][\A pc \in {"tp_read", "tp_next"} :
       (calls # <<>> /\ Top.pc = pc /\ Len(calls') >= Len(calls)
          /\ calls'[Len(calls)].pc # pc)
         => LET recentEvents ==
                  IF pc = "tp_read"
                  THEN SelectSeq(store, LAMBDA e : now - e.timestamp < HOUR)
                  ELSE Top.recent
                f == calls'[Len(calls)]
                due == {p \in 1..Len(threatPatterns) :
                          WeightSum(p, Top.event, recentEvents)
                            >= threatPatterns[p].threshold}
            IN /\ \A p \in 1..Len(threatPatterns) :
                    evaluateThreatPattern(threatPatterns[p], Top.event, recentEvents, now)
                      = WeightSum(p, Top.event, recentEvents)
               /\ f.pc = "td_read"
                    => /\ f.pat \in due
                       /\ f.threat.details.matchScore
                            = Num(WeightSum(f.pat, Top.event, recentEvents))
               /\ f.pc = "an_read" => FiredFor(Top.event.id) = due]_vars

\* a network event has fired suspicious_network_activity with score 0.8 + 0.3
\* and data_exfiltration with 1.0, and a data_access event whose size indicator
\* scores 0.7 has fired nothing
C24_Witness ==
  /\ calls = <<>>
  /\ Len(store) >= 2
  /\ store[1].type = "data_access" /\ FiredFor(store[1].id) = {}
  /\ WeightSum(5, store[1], <<>>) = 7
  /\ store[2].type = "network" /\ FiredFor(store[2].id) = {3, 5}
  /\ \E i \in 1..Len(store) :
       /\ IsDetection(store[i])
       /\ store[i].details.matchScore = Num(11)

\* a stored permission event whose details carry escalation: true
EscalationReported(e) ==
  /\ e.type = "permission"
  /\ "escalation" \in DOMAIN e.details
  /\ e.details.escalation = Bool(TRUE)

\* C25: an event whose details carry the field of an indicator with a matching
\* value satisfies the indicator: once a permission event logged with details
\* {escalation: true} has been processed, permission_escalation has fired for it.
C25_DetailsFieldMatches ==
  calls = <<>>
    => \A i \in 1..Len(store) :
         EscalationReported(store[i])
           => /\ 1 \in Satisfied(4, store[i], <<>>)
              /\ 4 \in FiredFor(store[i].id)

\* the operand types the operator is defined for
TypesFit(actual, operator, expected) ==
  CASE operator = "equals" -> actual.t = expected.t
    [] operator = "contains" -> actual.t = "string" /\ expected.t = "string"
    [] operator \in {"greater_than", "less_than"} ->
         actual.t = "number" /\ expected.t = "number"
    [] operator = "regex" -> actual.t = "string" /\ expected.t = "regex"
    [] OTHER -> FALSE

\* C26: indicator comparison never raises: for every operator and every
\* combination of the types of the actual and the expected value, compareValues
\* returns, and it returns false when the types do not fit the operator.
C26_ComparisonNeverRaises ==
  (calls # <<>> /\ Top.pc = "cv_done")
    => /\ Top.outcome = "returned"
       /\ ~TypesFit(Top.actual, Top.operator, Top.expected) => Top.result = FALSE

\* recentEvents of checkThreatPatterns, were the stored list read now
EventsOfLastHour == SelectSeq(getStoredEvents, LAMBDA e : now - e.timestamp < HOUR)

\* an aggregate indicator that holds when the count is at least 1
MoreThanNone(field) ==
  [field |-> <<field>>, operator |-> "greater_than", value |-> Num(0), weight |-> 0]

\* C27: the count of an aggregate indicator is the number of stored events of
\* the type of the triggering event within the trailing minute or hour, and it
\* always includes the triggering event itself, so it is at least 1.
C27_CountIncludesTrigger ==
  [][(calls # <<>> /\ Top.pc = "tp_read" /\ Len(calls') >= Len(calls)
        /\ calls'[Len(calls)].pc # "tp_read")
       => /\ \E i \in 1..Len(EventsOfLastHour) : EventsOfLastHour[i].id = Top.event.id
          /\ \A field \in {"count_per_minute", "count_per_hour"} :
               matchesIndicator(MoreThanNone(field), Top.event, EventsOfLastHour, now)]_vars

\* the stored events the action of pattern p has logged for the triggering
\* event id
FollowUpsOf(id, p) ==
  {i \in 1..Len(store) :
     /\ store[i].type = "system" /\ store[i].source = "security_monitor"
     /\ "reason" \in DOMAIN store[i].details
     /\ store[i].details.reason = Str(threatPatterns[p].name)
     /\ \/ /\ "blockedEvent" \in DOMAIN store[i].details
           /\ store[i].details.blockedEvent = Str(id)
        \/ /\ "alertedEvent" \in DOMAIN store[i].details
           /\ store[i].details.alertedEvent = Str(id)}

\* what the action of a pattern logs: at most one event, none for 'log', of
\* severity critical with action 'blocked' for 'block' and of severity medium
\* with action 'alerted' for 'alert', behind the detection record in the log
FollowUpShape(id, p) ==
  LET pattern == threatPatterns[p]
      ups == FollowUpsOf(id, p)
  IN /\ Cardinality(ups) <= 1
     /\ pattern.action = "log" => ups = {}
     /\ \A i \in ups :
          /\ pattern.action = "block"
               => store[i].severity = "critical" /\ store[i].details.action = Str("blocked")
          /\ pattern.action = "alert"
               => store[i].severity = "medium" /\ store[i].details.action = Str("alerted")
          /\ \E d \in DetectionsOf(id, p) : d < i

Owing(p) ==
  \E i \in 1..Len(calls) :
    /\ calls[i].pc \in {"td_read", "td_write", "tp_next"}
    /\ Fires(threatPatterns[p], calls[i].event, calls[i].recent, now)
    /\ DetectionsOf(calls[i].event.id, p) = {}

CountOfLastDay(ty) ==
  Cardinality({i \in 1..Len(store) : store[i].type = ty /\ now - store[i].timestamp < DAY})

\* the types the outermost anomaly check found over the threshold and has not
\* logged an anomaly event for
Unannounced ==
  IF calls # <<>> /\ calls[1].pc = "an_types"
  THEN {calls[1].types[k].details.eventType.v : k \in 1..Len(calls[1].types)}
  ELSE {}

EventsOfLastDay == SelectSeq(store, LAMBDA e : now - e.timestamp < DAY)

\* the minutes of the trailing 24 hours that hold events
UsedMinutes == {EventsOfLastDay[i].timestamp \div MINUTE : i \in 1..Len(EventsOfLastDay)}

\* the number of events of the trailing 24 hours in minute k
InMinute(k) ==
  Cardinality({i \in 1..Len(EventsOfLastDay) : EventsOfLastDay[i].timestamp \div MINUTE = k})

\* the count of the current minute is strictly greater than mean + 3 x
\* population standard deviation of the counts of the minutes in use: with n
\* minutes and S events, n (n c - S)^2 > 9 * sum of (n x - S)^2 and n c > S
AboveThreeDeviations ==
  LET n == Cardinality(UsedMinutes)
      S == Len(EventsOfLastDay)
      c == InMinute(now \div MINUTE)
      dev == [k \in UsedMinutes |-> (n * InMinute(k) - S) * (n * InMinute(k) - S)]
  IN /\ n * c > S
     /\ n * (n * c - S) * (n * c - S)
          > ANOMALY_THRESHOLD * ANOMALY_THRESHOLD * SumOfCounts(dev, UsedMinutes)

\* C31: the anomaly check emits a frequency-anomaly event only when the
\* trailing 24 hours hold at least 6 non-empty minutes and the count of the
\* current minute is strictly greater than mean + 3 x population standard
\* deviation of the counts of the non-empty minutes.
C31_FrequencyAnomalyOnlyAbove ==
  [][(calls # <<>> /\ Top.pc = "an_read" /\ Len(calls') > Len(calls)
        /\ calls'[Len(calls')].event.details.anomalyType = Str("frequency"))
       => /\ Cardinality(UsedMinutes) >= 6
          /\ AboveThreeDeviations]_vars

\* C32: events are created only by logEvent: every event of the persisted
\* list was appended by the write of a logEvent call.
C32_OnlyLogEventAppends ==
  \A i \in 1..Len(store) : \E p \in hist.persisted : p.id = store[i].id

\* C33: retention runs once at initialization and periodically afterwards:
\* when initialize() has completed, a retention pass has been performed and
\* the periodic passes are scheduled.
C33_InitializeRunsRetention ==
  tasks.init.pc = "done" => (hist.cleanedAt > 0 /\ tasks.periodic)

\* the low-severity logEvent call of this step, made while the monitor is enabled
LowCallStep ==
  /\ hist'.last.called
  /\ hist'.last.op = "logEvent"
  /\ hist'.last.severity = "low"
  /\ enabled

AllInWindow(list, t) ==
  \A i \in 1..Len(list) : (t - list[i]) * TickMs < RATE_LIMIT_WINDOW

C36_FailedReadKeepsHistory ==
  [][(hist'.last.op \in {"write", "td_write"} /\ Len(store) < MAX_STORED_EVENTS)
       => \A i \in 1..Len(store) : \E j \in 1..Len(store') : store'[j] = store[i]]_vars

\* getEnabled() has just returned while no setEnabled call is in flight
EnabledAnswered ==
  /\ hist.last.op = "getEnabled"
  /\ tasks.api.outcome = "returned"
  /\ tasks.setEnabled = "idle"

\* C37: the enabled flag has one value: what getEnabled() returns once
\* setEnabled has returned is the flag logEvent acts on, also when the write of
\* the setting failed, and a logEvent call made while the persisted setting is
\* 'disabled' logs nothing, also before initialize() has been called
C37_OneEnabledFlag ==
  /\ EnabledAnswered => tasks.api.flag = enabled
  /\ (hist.last.called /\ hist.last.op = "logEvent" /\ setting = "false")
       => ~hist.last.admitted

\* no operation of the monitor is in flight
NothingInFlight ==
  /\ calls = <<>>
  /\ tasks.setEnabled = "idle"
  /\ tasks.init.pc \in {"idle", "done"}
  /\ tasks.cleanup.pc = "idle"
  /\ tasks.refresh.pc = "idle"
  /\ tasks.api.pc = "idle"

\* C38: whenever no operation is in flight, the snapshot getMetrics() returns
\* matches the store: its totalEvents is the number of stored events
C38_SnapshotMatchesStore ==
  NothingInFlight => GetMetricsResult.totalEvents = Len(store)

\* the last clearEvents() call has returned and no other is in flight
Cleared == tasks.api.op = "clearEvents" /\ tasks.api.outcome = "returned"

\* C39: once clearEvents() has returned, no event whose logEvent call started
\* before clearEvents was invoked is in the store, and the metrics snapshot
\* counts no more events than were logged since, also when clearEvents
\* interleaves with a logEvent call in flight
C39_ClearIsFinal ==
  Cleared
    => /\ \A i \in 1..Len(store) : store[i].id >= hist.clearFrom
       /\ GetMetricsResult.totalEvents <= nextId - hist.clearFrom

====
